---- MODULE Spec2Model ----
(***************************************************************************)
(* nebula-commander control plane: address allocation, CA bootstrap and    *)
(* host-certificate lifecycle (backend/api and backend/services).          *)
(*                                                                         *)
(* The backend is one uvicorn process (main.py): every HTTP request is a   *)
(* coroutine on one event loop with its own AsyncSession (get_session).    *)
(* A coroutine gives up control only at an await of a database statement;  *)
(* the code between two awaits -- including every file operation and every *)
(* nebula-cert subprocess, which are blocking calls -- runs atomically.    *)
(* One action below is one such stretch of a handler.                      *)
(*                                                                         *)
(* Database: the default sqlite+aiosqlite engine.  A SELECT issued before  *)
(* the session's first INSERT/UPDATE/DELETE reads the committed database;  *)
(* the first write statement opens the transaction and takes SQLite's      *)
(* single write lock, which is held until commit or rollback.  `db` is the *)
(* committed database, `wdb` the working copy of the session that holds    *)
(* the lock (`writer`).  Files of the certificate store are not part of    *)
(* any transaction.                                                        *)
(*                                                                         *)
(* One network exists from the start (its CA is created lazily).           *)
(***************************************************************************)
EXTENDS Integers, FiniteSets, Sequences, TLC

(* ------------------------------ bounds ------------------------------- *)
\* usable host addresses of the network's CIDR: 1..NumHosts; 0 is the
\* network address, NumHosts+1 the broadcast address, NumHosts+2 lies outside
NumHosts == 2
\* request coroutines that may be in flight together
NumSlots == 2
\* largest node row id / certificate row id handed out while the requests
\* arrive one after the other (Spec)
MaxNodeId == 1
MaxCertId == 2
\* the same while certificate requests are in flight together (ConcSpec)
ConcMaxNodeId == 2
ConcMaxCertId == 3

Slots == 1..NumSlots
Hostnames == {"h1", "h2"}
Hosts == 1..NumHosts
NetworkAddress == 0
BroadcastAddress == NumHosts + 1
OutsideAddress == NumHosts + 2
Addresses == NetworkAddress..OutsideAddress
NoIp == -1
Suggestions == {NoIp, NetworkAddress, 1}
\* public keys: 0 is "no key", ClientKey the key a betterkeys caller sends,
\* ServerKey the key of a pair keygen produced
NoKey == 0
ClientKey == 1
ServerKey == 2
\* a file of the store: the CA that signed it (certificates) and the key it
\* holds or certifies
NoFile == [present |-> FALSE, ca |-> 0, key |-> NoKey]
\* hostnames asked for through node requests
RequestNames == {"h1"}

\* tool: what the external generate-CA operation was asked to do so far
\* (ca_ok: successful runs, ca_refused: it was invoked although CA files exist)
VARIABLES db, wdb, writer, store, req, tool

vars == <<db, wdb, writer, store, req, tool>>

(* ------------------------------ helpers ------------------------------ *)
Max(S) == IF S = {} THEN 0 ELSE CHOOSE x \in S : \A y \in S : y <= x
Min(S) == CHOOSE x \in S : \A y \in S : x <= y

NoNode == [id |-> 0, hostname |-> "", ip_address |-> NoIp, public_key |-> NoKey,
           cert_fingerprint |-> 0, status |-> "pending", is_lighthouse |-> FALSE,
           groups |-> ""]

\* a request coroutine: its handler (op), its position (pc), the request's
\* parameters (name, sug, lh, grp, nid, auto) and the handler's locals
\* (status: the HTTP status it ended with; net_ca: the loaded Network object has ca_cert_path set; ca_way: the way
\* its ensure_ca call went; is_lh; ip: the address allocate returned;
\* orig/node: a Node object as loaded / as changed)
Idle == [op |-> "idle", pc |-> "idle", name |-> "", sug |-> NoIp, lh |-> "none",
         grp |-> "none", nid |-> 0, net_ca |-> FALSE, ca_way |-> "", is_lh |-> FALSE,
         ip |-> NoIp, orig |-> NoNode, node |-> NoNode, status |-> 0]

\* what a SELECT of session r reads
View(r) == IF writer = r THEN wdb ELSE db

\* a write statement waits for SQLite's write lock
CanWrite(r) == writer \in {0, r}

\* get_session: commit when the handler returned, roll back when it raised.
\* pend is the session's view with its not yet flushed changes applied.
get_session_always_commit(raised, pend) == pend
get_session(raised, pend) == IF raised THEN db ELSE pend

\* r's statement wrote d
Wrote(r, d) ==
  /\ CanWrite(r)
  /\ writer' = r
  /\ wdb' = d
  /\ UNCHANGED db

\* the request rq of r ends with `status` (pc "done": the response is on its
\* way to the client); pend as in get_session
Reply(r, rq, status, pend) ==
  /\ db' = get_session(status # 200, pend)
  /\ writer' = IF writer = r THEN 0 ELSE writer
  /\ wdb' = IF writer \in {0, r} THEN db' ELSE wdb
  /\ req' = [req EXCEPT ![r] = [rq EXCEPT !.pc = "done", !.status = status]]

Finish(r, status, pend) == Reply(r, req[r], status, pend)

Goto(r, pc) == req' = [req EXCEPT ![r].pc = pc]

(* --------------------------- initial state --------------------------- *)
Init ==
  /\ db = [nodes |-> {}, alloc |-> [a \in Addresses |-> 0], certs |-> {},
           ca_path |-> FALSE, requests |-> {}]
  /\ wdb = db
  /\ writer = 0
  /\ store = [ca_crt |-> 0, ca_key |-> 0, crt |-> [h \in Hostnames |-> NoFile],
              key |-> [h \in Hostnames |-> NoFile]]
  /\ req = [r \in Slots |-> Idle]
  /\ tool = [ca_ok |-> 0, ca_refused |-> FALSE]

(* ------------------------- rows and statements ----------------------- *)
NodeIds(d) == {n.id : n \in d.nodes}
CertIds(d) == {c.id : c \in d.certs}
NodesNamed(d, name) == {n \in d.nodes : n.hostname = name}
Lighthouses(d) == {n \in d.nodes : n.is_lighthouse}

\* UPDATE nodes SET <the attributes that differ between the loaded object o
\* and its current value n> WHERE id = o.id, applied to the row as it is now
Patch(row, o, n) ==
  [id |-> row.id, hostname |-> row.hostname,
   ip_address |-> IF n.ip_address # o.ip_address THEN n.ip_address ELSE row.ip_address,
   public_key |-> IF n.public_key # o.public_key THEN n.public_key ELSE row.public_key,
   cert_fingerprint |-> IF n.cert_fingerprint # o.cert_fingerprint
                        THEN n.cert_fingerprint ELSE row.cert_fingerprint,
   status |-> IF n.status # o.status THEN n.status ELSE row.status,
   is_lighthouse |-> IF n.is_lighthouse # o.is_lighthouse
                     THEN n.is_lighthouse ELSE row.is_lighthouse,
   groups |-> IF n.groups # o.groups THEN n.groups ELSE row.groups]

UpdateNodeRow(d, o, n) ==
  [d EXCEPT !.nodes = {IF x.id = o.id THEN Patch(x, o, n) ELSE x : x \in d.nodes}]

\* the UPDATE matched no row: StaleDataError
Stale(d, o) == o.id \notin NodeIds(d)

InsertAlloc(d, a) == [d EXCEPT !.alloc[a] = @ + 1]
\* DELETE of the allocation row release() selected, if it is still there
release_keeps_row(d, a) == d
DeleteAlloc(d, a) == [d EXCEPT !.alloc[a] = IF @ > 0 THEN @ - 1 ELSE 0]
InsertCert(d, nid) ==
  [d EXCEPT !.certs = @ \cup {[id |-> Max(CertIds(d)) + 1, node_id |-> nid,
                               revoked |-> FALSE]}]
\* UPDATE certificates SET revoked_at = now WHERE node_id = nid
RevokeCerts(d, nid) ==
  [d EXCEPT !.certs = {IF c.node_id = nid THEN [c EXCEPT !.revoked = TRUE] ELSE c
                       : c \in @}]

\* unlink <hostname>.crt and <hostname>.key (missing_ok)
Unlink(st, name) == [st EXCEPT !.crt[name] = NoFile, !.key[name] = NoFile]
CrtFile(ca, k) == [present |-> TRUE, ca |-> ca, key |-> k]
KeyFile(k) == [present |-> TRUE, ca |-> 0, key |-> k]

(* ------------------------------ allocate ----------------------------- *)
\* IPAllocator.allocate, lines 36-39: is the suggestion looked up at all
SuggestionUsable(sug) ==
  /\ sug # NoIp
  /\ sug \in NetworkAddress..BroadcastAddress
  /\ sug \notin {NetworkAddress, BroadcastAddress}

\* lines 65-76: the first host address, in ascending order, not in `used`
first_free_descending(used) == IF Hosts \ used = {} THEN NoIp ELSE Max(Hosts \ used)
FirstFree(used) == IF Hosts \ used = {} THEN NoIp ELSE Min(Hosts \ used)

Used(d) == {a \in Addresses : d.alloc[a] > 0}

AllocEntry(sug) == IF SuggestionUsable(sug) THEN "alloc_check" ELSE "alloc_scan"

\* lines 41-55: SELECT the row of the suggested address
AllocCheck(r) ==
  /\ req[r].pc = "alloc_check"
  /\ LET n == View(r).alloc[req[r].sug] IN
       IF n > 1
       THEN \* scalar_one_or_none: MultipleResultsFound
            /\ Finish(r, 500, View(r))
            /\ UNCHANGED <<store, tool>>
       ELSE /\ req' = [req EXCEPT ![r].pc = IF n = 0 THEN "issue" ELSE "alloc_scan",
                                  ![r].ip = IF n = 0 THEN req[r].sug ELSE NoIp]
            /\ UNCHANGED <<db, wdb, writer, store, tool>>

\* lines 60-76: SELECT the used addresses, take the first free host
AllocScan(r) ==
  /\ req[r].pc = "alloc_scan"
  /\ LET a == FirstFree(Used(View(r))) IN
       IF a = NoIp
       THEN \* ValueError("No free IP in subnet")
            /\ Finish(r, 500, View(r))
            /\ UNCHANGED <<store, tool>>
       ELSE /\ req' = [req EXCEPT ![r].pc = "issue", ![r].ip = a]
            /\ UNCHANGED <<db, wdb, writer, store, tool>>

(* ------------------------------ ensure_ca ---------------------------- *)
\* the CA material that is on the store (ca.crt, ca.key)
CaFiles(st) == {st.ca_crt, st.ca_key} \ {0}

\* CertManager.ensure_ca, lines 32-44: which way it goes, given whether the
\* loaded Network object has ca_cert_path set and whether ca.crt and ca.key
\* exist
ensure_ca_always_generate(net_ca, crt, key) == "generate"
ensure_ca_no_adopt(net_ca, crt, key) ==
  IF net_ca /\ crt THEN "noop" ELSE "generate"
ensure_ca_recorded_only(net_ca, crt, key) ==
  IF net_ca THEN "noop" ELSE "generate"
ensure_ca(net_ca, crt, key) ==
  IF net_ca /\ crt THEN "noop"
  ELSE IF crt /\ key THEN "adopt"
  ELSE "generate"

\* ca_generate (nebula-cert ca): refuses to overwrite an existing CA file,
\* and may exit non-zero or time out by itself (ok = FALSE); it writes both
\* files or none
CaGenerateSucceeds(ok) == ok /\ store.ca_crt = 0 /\ store.ca_key = 0

\* the blocking part of ensure_ca (lines 32-49); the flush is CaFlush
EnsureCa(r) ==
  /\ req[r].pc = "ensure_ca"
  /\ LET way == ensure_ca(req[r].net_ca, store.ca_crt # 0, store.ca_key # 0)
         next == AllocEntry(req[r].sug) IN
       IF way = "noop"
       THEN /\ req' = [req EXCEPT ![r].pc = next, ![r].ca_way = way]
            /\ UNCHANGED <<db, wdb, writer, store, tool>>
       ELSE IF way = "adopt"
       THEN /\ req' = [req EXCEPT ![r].pc = "ca_flush", ![r].net_ca = TRUE,
                                  ![r].ca_way = way]
            /\ UNCHANGED <<db, wdb, writer, store, tool>>
       ELSE \E ok \in BOOLEAN :
              IF CaGenerateSucceeds(ok)
              THEN \* both files are then rewritten encrypted (lines 46-47)
                   /\ store' = [store EXCEPT !.ca_crt = tool.ca_ok + 1,
                                              !.ca_key = tool.ca_ok + 1]
                   /\ tool' = [tool EXCEPT !.ca_ok = @ + 1]
                   /\ req' = [req EXCEPT
                                ![r].pc = IF req[r].net_ca THEN next ELSE "ca_flush",
                                ![r].net_ca = TRUE, ![r].ca_way = way]
                   /\ UNCHANGED <<db, wdb, writer>>
              ELSE \* CalledProcessError / TimeoutExpired
                   /\ tool' = [tool EXCEPT !.ca_refused = @ \/ CaFiles(store) # {}]
                   /\ Finish(r, 500, View(r))
                   /\ UNCHANGED store

\* ensure_ca lines 42 / 50: flush the changed ca_cert_path, ca_key_path
CaFlush(r) ==
  /\ req[r].pc = "ca_flush"
  /\ Wrote(r, [View(r) EXCEPT !.ca_path = TRUE])
  /\ Goto(r, AllocEntry(req[r].sug))
  /\ UNCHANGED <<store, tool>>

(* ------------------------- request admission ------------------------- *)
\* row ids stay within the bounds: a request that may insert a node or a
\* certificate row is admitted only while ids are left for every such request
\* (a betterkeys sign for a hostname that has a node updates that node)
InFlight == {r \in Slots : req[r].pc \notin {"idle", "done"}}
Creating == {r \in InFlight : \/ req[r].op = "create"
                              \/ /\ req[r].op = "sign"
                                 /\ NodesNamed(db, req[r].name) = {}}
Issuing == {r \in InFlight : req[r].op \in {"create", "sign", "reenroll"}}
RoomForNode(max) == Max(NodeIds(db) \cup NodeIds(wdb)) + Cardinality(Creating) < max
RoomForCert(max) == Max(CertIds(db) \cup CertIds(wdb)) + Cardinality(Issuing) < max

Begin(r, op, pc) == [Idle EXCEPT !.op = op, !.pc = pc]

(* ------------------- POST /api/certificates/create ------------------- *)
\* lines 168-173: SELECT the network
CreateStart(r, name, sug, lh) ==
  /\ req[r].op = "idle"
  /\ req' = [req EXCEPT ![r] = [Begin(r, "create", "count") EXCEPT
                                  !.name = name, !.sug = sug, !.lh = lh,
                                  !.net_ca = View(r).ca_path]]
  /\ UNCHANGED <<db, wdb, writer, store, tool>>

\* lines 175-189: the first node of a network must be a lighthouse
CreateCount(r) ==
  /\ req[r].op = "create" /\ req[r].pc = "count"
  /\ LET node_count == Cardinality(View(r).nodes) IN
       IF node_count = 0 /\ req[r].lh = "false"
       THEN /\ Finish(r, 400, View(r))
            /\ UNCHANGED <<store, tool>>
       ELSE /\ req' = [req EXCEPT ![r].pc = "dup",
                                  ![r].is_lh = IF node_count = 0 THEN TRUE
                                               ELSE req[r].lh = "true"]
            /\ UNCHANGED <<db, wdb, writer, store, tool>>

\* lines 191-202: reject a duplicate (network, hostname)
CreateDup(r) ==
  /\ req[r].op = "create" /\ req[r].pc = "dup"
  /\ LET rows == NodesNamed(View(r), req[r].name) IN
       IF rows # {}
       THEN \* one row: 409; several: MultipleResultsFound
            /\ Finish(r, IF Cardinality(rows) = 1 THEN 409 ELSE 500, View(r))
            /\ UNCHANGED <<store, tool>>
       ELSE /\ Goto(r, IF req[r].sug # NoIp THEN "is_allocated" ELSE "ensure_ca")
            /\ UNCHANGED <<db, wdb, writer, store, tool>>

\* lines 204-211: reject a suggested address that is already allocated
CreateIsAllocated(r) ==
  /\ req[r].op = "create" /\ req[r].pc = "is_allocated"
  /\ LET n == View(r).alloc[req[r].sug] IN
       IF n > 0
       THEN /\ Finish(r, IF n = 1 THEN 409 ELSE 500, View(r))
            /\ UNCHANGED <<store, tool>>
       ELSE /\ Goto(r, "ensure_ca")
            /\ UNCHANGED <<db, wdb, writer, store, tool>>

\* allocate's INSERT (ip_allocator.py 48-53 / 68-73), then
\* create_host_certificate lines 129-160 (keygen, sign, both files written
\* encrypted) and create_certificate lines 224-248 (node row, certificate row)
CreateIssue(r) ==
  /\ req[r].op = "create" /\ req[r].pc = "issue"
  /\ CanWrite(r)
  /\ LET d1 == InsertAlloc(View(r), req[r].ip)
         id == Max(NodeIds(d1)) + 1 IN
     \E ok \in BOOLEAN :
       IF ~ok
       THEN \* keygen or sign failed
            /\ Finish(r, 500, d1)
            /\ UNCHANGED <<store, tool>>
       ELSE /\ store' = [store EXCEPT
                           !.crt[req[r].name] = CrtFile(store.ca_key, ServerKey),
                           !.key[req[r].name] = KeyFile(ServerKey)]
            /\ Wrote(r, InsertCert(
                 [d1 EXCEPT !.nodes = @ \cup
                    {[id |-> id, hostname |-> req[r].name, ip_address |-> req[r].ip,
                      public_key |-> ServerKey, cert_fingerprint |-> 0, status |-> "active",
                      is_lighthouse |-> req[r].is_lh, groups |-> ""]}], id))
            /\ Goto(r, "commit")
            /\ UNCHANGED tool

(* --------------------- POST /api/certificates/sign ------------------- *)
\* lines 86-91: SELECT the network
SignStart(r, name, sug) ==
  /\ req[r].op = "idle"
  /\ req' = [req EXCEPT ![r] = [Begin(r, "sign", "ensure_ca") EXCEPT
                                  !.name = name, !.sug = sug,
                                  !.net_ca = View(r).ca_path]]
  /\ UNCHANGED <<db, wdb, writer, store, tool>>

\* allocate's INSERT, then sign_host lines 73-105 (the certificate is signed
\* over the caller's key and written encrypted; no key file is touched) and
\* sign_certificate lines 104-137 (create or update the node, certificate row)
SignIssue(r) ==
  /\ req[r].op = "sign" /\ req[r].pc = "issue"
  /\ CanWrite(r)
  /\ LET d1 == InsertAlloc(View(r), req[r].ip)
         rows == NodesNamed(d1, req[r].name)
         id == Max(NodeIds(d1)) + 1 IN
     \E ok \in BOOLEAN :
       IF ~ok
       THEN \* cert_sign failed
            /\ Finish(r, 500, d1)
            /\ UNCHANGED <<store, tool>>
       ELSE /\ store' = [store EXCEPT
                           !.crt[req[r].name] = CrtFile(store.ca_key, ClientKey)]
            /\ IF Cardinality(rows) > 1
               THEN \* scalar_one_or_none: MultipleResultsFound
                    /\ Finish(r, 500, d1)
                    /\ UNCHANGED tool
               ELSE /\ IF rows = {}
                       THEN Wrote(r, InsertCert(
                              [d1 EXCEPT !.nodes = @ \cup
                                 {[id |-> id, hostname |-> req[r].name,
                                   ip_address |-> req[r].ip, public_key |-> ClientKey,
                                   cert_fingerprint |-> 0, status |-> "active",
                                   is_lighthouse |-> FALSE, groups |-> ""]}], id))
                       ELSE LET o == CHOOSE n \in rows : TRUE IN
                            Wrote(r, InsertCert(
                              UpdateNodeRow(d1, o,
                                [o EXCEPT !.ip_address = req[r].ip,
                                          !.public_key = ClientKey,
                                          !.status = "active"]), o.id))
                    /\ Goto(r, "commit")
                    /\ UNCHANGED tool

(* ------------------------ PATCH /api/nodes/{id} ---------------------- *)
SetGroup(n, grp) == IF grp = "none" THEN n ELSE [n EXCEPT !.groups = grp]

\* lines 207-212 and, when no lighthouse count is needed, 213-238
UpdateStart(r, nid, grp, lh) ==
  /\ req[r].op = "idle"
  /\ LET rows == {n \in View(r).nodes : n.id = nid}
         rq == [Begin(r, "update", "flush") EXCEPT !.nid = nid, !.grp = grp, !.lh = lh] IN
       IF rows = {}
       THEN /\ Reply(r, rq, 404, View(r))
            /\ UNCHANGED <<store, tool>>
       ELSE LET o == CHOOSE n \in rows : TRUE
                n1 == SetGroup(o, grp) IN
            /\ req' = [req EXCEPT ![r] =
                 IF lh = "false" /\ o.is_lighthouse
                 THEN [rq EXCEPT !.pc = "lh_count", !.orig = o, !.node = n1]
                 ELSE [rq EXCEPT !.orig = o,
                         !.node = IF lh = "none" THEN n1
                                  ELSE [n1 EXCEPT !.is_lighthouse = (lh = "true")]]]
            /\ UNCHANGED <<db, wdb, writer, store, tool>>

\* lines 215-228: cannot remove the only lighthouse
UpdateCount(r) ==
  /\ req[r].op = "update" /\ req[r].pc = "lh_count"
  /\ LET lighthouse_count == Cardinality(Lighthouses(View(r))) IN
       IF lighthouse_count <= 1
       THEN \* HTTPException(409); node.groups is changed but not flushed
            /\ Finish(r, 409, UpdateNodeRow(View(r), req[r].orig, req[r].node))
            /\ UNCHANGED <<store, tool>>
       ELSE /\ req' = [req EXCEPT ![r].pc = "flush",
                                  ![r].node = [@ EXCEPT !.is_lighthouse = FALSE]]
            /\ UNCHANGED <<db, wdb, writer, store, tool>>

\* line 239: flush
UpdateFlush(r) ==
  /\ req[r].op = "update" /\ req[r].pc = "flush"
  /\ IF req[r].node = req[r].orig
     THEN /\ Goto(r, "commit")
          /\ UNCHANGED <<db, wdb, writer, store, tool>>
     ELSE /\ CanWrite(r)
          /\ IF Stale(View(r), req[r].orig)
             THEN /\ Finish(r, 500, View(r))
                  /\ UNCHANGED <<store, tool>>
             ELSE /\ Wrote(r, UpdateNodeRow(View(r), req[r].orig, req[r].node))
                  /\ Goto(r, "commit")
                  /\ UNCHANGED <<store, tool>>

(* ----------------------- DELETE /api/nodes/{id} ---------------------- *)
\* where delete_node goes once the lighthouse check has passed (line 270)
DeleteNext(o) == IF o.ip_address # NoIp THEN "release_select" ELSE "unlink"

\* lines 250-255
DeleteStart(r, nid) ==
  /\ req[r].op = "idle"
  /\ LET rows == {n \in View(r).nodes : n.id = nid} IN
       IF rows = {}
       THEN /\ Reply(r, [Begin(r, "delete", "start") EXCEPT !.nid = nid], 404, View(r))
            /\ UNCHANGED <<store, tool>>
       ELSE LET o == CHOOSE n \in rows : TRUE IN
            /\ req' = [req EXCEPT ![r] =
                 [Begin(r, "delete", IF o.is_lighthouse THEN "lh_count" ELSE DeleteNext(o))
                    EXCEPT !.nid = nid, !.orig = o, !.node = o]]
            /\ UNCHANGED <<db, wdb, writer, store, tool>>

\* lines 256-267: cannot delete the only lighthouse
DeleteCount(r) ==
  /\ req[r].op = "delete" /\ req[r].pc = "lh_count"
  /\ LET lighthouse_count == Cardinality(Lighthouses(View(r))) IN
       IF lighthouse_count <= 1
       THEN /\ Finish(r, 409, View(r))
            /\ UNCHANGED <<store, tool>>
       ELSE /\ Goto(r, DeleteNext(req[r].orig))
            /\ UNCHANGED <<db, wdb, writer, store, tool>>

\* release (ip_allocator.py 80-87): SELECT the allocation row
DeleteReleaseSelect(r) ==
  /\ req[r].op = "delete" /\ req[r].pc = "release_select"
  /\ LET n == View(r).alloc[req[r].orig.ip_address] IN
       IF n > 1
       THEN /\ Finish(r, 500, View(r))
            /\ UNCHANGED <<store, tool>>
       ELSE /\ Goto(r, IF n = 1 THEN "release_delete" ELSE "unlink")
            /\ UNCHANGED <<db, wdb, writer, store, tool>>

\* lines 274-281, reached without a DELETE of an allocation row
DeleteUnlink(r) ==
  /\ req[r].op = "delete" /\ req[r].pc = "unlink"
  /\ store' = Unlink(store, req[r].orig.hostname)
  /\ Goto(r, "rows")
  /\ UNCHANGED <<db, wdb, writer, tool>>

\* release's DELETE (ip_allocator.py 88-89) and the unlinks, when a row was
\* selected; then lines 283-290: the node's certificate rows and the node row
DeleteRows(r) ==
  /\ req[r].op = "delete" /\ req[r].pc \in {"release_delete", "rows"}
  /\ CanWrite(r)
  /\ LET o == req[r].orig
         d1 == IF req[r].pc = "release_delete"
               THEN DeleteAlloc(View(r), o.ip_address) ELSE View(r) IN
     /\ store' = IF req[r].pc = "release_delete"
                 THEN Unlink(store, o.hostname) ELSE store
     /\ Wrote(r, [d1 EXCEPT !.certs = {c \in @ : c.node_id # o.id},
                            !.nodes = {n \in @ : n.id # o.id}])
     /\ Goto(r, "commit")
     /\ UNCHANGED tool

(* --------------- POST /api/nodes/{id}/revoke-certificate ------------- *)
Cleared(n) == [n EXCEPT !.ip_address = NoIp, !.public_key = NoKey,
                        !.cert_fingerprint = 0]

\* lines 301-304
RevokeStart(r, nid) ==
  /\ req[r].op = "idle"
  /\ LET rows == {n \in View(r).nodes : n.id = nid} IN
       IF rows = {}
       THEN /\ Reply(r, [Begin(r, "revoke", "start") EXCEPT !.nid = nid], 404, View(r))
            /\ UNCHANGED <<store, tool>>
       ELSE LET o == CHOOSE n \in rows : TRUE IN
            /\ req' = [req EXCEPT ![r] =
                 [Begin(r, "revoke", "revoke") EXCEPT !.nid = nid, !.orig = o, !.node = o]]
            /\ UNCHANGED <<db, wdb, writer, store, tool>>

\* lines 306-328: mark the certificates revoked, release the address and
\* unlink the files if the node has an address, clear the node's fields
RevokeWrite(r) ==
  /\ req[r].op = "revoke" /\ req[r].pc = "revoke"
  /\ CanWrite(r)
  /\ LET o == req[r].orig
         d1 == RevokeCerts(View(r), o.id)
         has_ip == o.ip_address # NoIp
         d2 == IF has_ip THEN DeleteAlloc(d1, o.ip_address) ELSE d1
         n == [Cleared(o) EXCEPT !.status = "revoked"] IN
       IF has_ip /\ d1.alloc[o.ip_address] > 1
       THEN \* release: MultipleResultsFound
            /\ Finish(r, 500, d1)
            /\ UNCHANGED <<store, tool>>
       ELSE /\ store' = IF has_ip THEN Unlink(store, o.hostname) ELSE store
            /\ IF Stale(d2, o) /\ n # o
               THEN /\ Finish(r, 500, d2)
                    /\ UNCHANGED tool
               ELSE /\ Wrote(r, UpdateNodeRow(d2, o, n))
                    /\ Goto(r, "commit")
                    /\ UNCHANGED tool

(* -------------------- POST /api/nodes/{id}/re-enroll ----------------- *)
\* lines 339-345
ReenrollStart(r, nid) ==
  /\ req[r].op = "idle"
  /\ LET rows == {n \in View(r).nodes : n.id = nid} IN
       IF rows = {}
       THEN /\ Reply(r, [Begin(r, "reenroll", "start") EXCEPT !.nid = nid], 404, View(r))
            /\ UNCHANGED <<store, tool>>
       ELSE LET o == CHOOSE n \in rows : TRUE IN
            /\ req' = [req EXCEPT ![r] =
                 [Begin(r, "reenroll", IF o.ip_address # NoIp THEN "revoke" ELSE "network")
                    EXCEPT !.nid = nid, !.name = o.hostname, !.orig = o, !.node = o]]
            /\ UNCHANGED <<db, wdb, writer, store, tool>>

\* lines 346-366: the node has an address: revoke first, then SELECT the network
ReenrollRevoke(r) ==
  /\ req[r].op = "reenroll" /\ req[r].pc = "revoke"
  /\ CanWrite(r)
  /\ LET o == req[r].orig
         d1 == RevokeCerts(View(r), o.id)
         d2 == DeleteAlloc(d1, o.ip_address)
         n == Cleared(o) IN
       IF d1.alloc[o.ip_address] > 1
       THEN /\ Finish(r, 500, d1)
            /\ UNCHANGED <<store, tool>>
       ELSE /\ store' = Unlink(store, o.hostname)
            /\ IF Stale(d2, o)
               THEN /\ Finish(r, 500, d2)
                    /\ UNCHANGED tool
               ELSE /\ Wrote(r, UpdateNodeRow(d2, o, n))
                    /\ req' = [req EXCEPT ![r].pc = "ensure_ca", ![r].orig = n,
                                          ![r].node = n, ![r].net_ca = d2.ca_path]
                    /\ UNCHANGED tool

\* lines 364-368: the node has no address: SELECT the network
ReenrollNetwork(r) ==
  /\ req[r].op = "reenroll" /\ req[r].pc = "network"
  /\ req' = [req EXCEPT ![r].pc = "ensure_ca", ![r].net_ca = View(r).ca_path]
  /\ UNCHANGED <<db, wdb, writer, store, tool>>

\* allocate's INSERT, then create_host_certificate_for_existing_node lines
\* 195-241: keygen, sign, both files, the node's fields, a certificate row
ReenrollIssue(r) ==
  /\ req[r].op = "reenroll" /\ req[r].pc = "issue"
  /\ CanWrite(r)
  /\ LET o == req[r].orig
         d1 == InsertAlloc(View(r), req[r].ip) IN
     \E ok \in BOOLEAN :
       IF ~ok
       THEN /\ Finish(r, 500, d1)
            /\ UNCHANGED <<store, tool>>
       ELSE /\ store' = [store EXCEPT
                           !.crt[o.hostname] = CrtFile(store.ca_key, ServerKey),
                           !.key[o.hostname] = KeyFile(ServerKey)]
            /\ IF Stale(d1, o)
               THEN /\ Finish(r, 500, d1)
                    /\ UNCHANGED tool
               ELSE /\ Wrote(r, InsertCert(
                         UpdateNodeRow(d1, o,
                           [o EXCEPT !.ip_address = req[r].ip, !.public_key = ServerKey,
                                     !.cert_fingerprint = 0, !.status = "active"]),
                         o.id))
                    /\ Goto(r, "commit")
                    /\ UNCHANGED tool

(* -------------------- POST /api/nodes/{id}/heartbeat ----------------- *)
\* lines 22-25
HeartbeatStart(r, nid) ==
  /\ req[r].op = "idle"
  /\ LET rows == {n \in View(r).nodes : n.id = nid} IN
       IF rows = {}
       THEN /\ Reply(r, [Begin(r, "heartbeat", "start") EXCEPT !.nid = nid], 404, View(r))
            /\ UNCHANGED <<store, tool>>
       ELSE LET o == CHOOSE n \in rows : TRUE IN
            /\ req' = [req EXCEPT ![r] =
                 [Begin(r, "heartbeat", "flush") EXCEPT !.nid = nid, !.orig = o,
                    !.node = [o EXCEPT !.status = "active"]]]
            /\ UNCHANGED <<db, wdb, writer, store, tool>>

\* lines 26-28: last_seen always changes, so an UPDATE is always emitted
HeartbeatFlush(r) ==
  /\ req[r].op = "heartbeat" /\ req[r].pc = "flush"
  /\ CanWrite(r)
  /\ IF Stale(View(r), req[r].orig)
     THEN /\ Finish(r, 500, View(r))
          /\ UNCHANGED <<store, tool>>
     ELSE /\ Wrote(r, UpdateNodeRow(View(r), req[r].orig, req[r].node))
          /\ Goto(r, "commit")
          /\ UNCHANGED <<store, tool>>

(* --------------------------- /api/node-requests ---------------------- *)
\* IPAllocator (ip_allocator.py 16-99) defines allocate, release and
\* is_allocated only: the call ip_allocator.allocate_next(...) of
\* node_requests.py lines 115 and 304 raises AttributeError
allocate_next_raises == TRUE

\* create_node_request lines 58-131.  auto: the caller may manage the
\* network's nodes, or the network auto-approves
CreateNodeRequest(r, name, auto) ==
  /\ req[r].op = "idle"
  /\ CanWrite(r)
  /\ LET d1 == [View(r) EXCEPT !.requests = @ \cup {name}] IN
       IF auto /\ allocate_next_raises
       THEN /\ Reply(r, Begin(r, "node_request", "start"), 500, d1)
            /\ UNCHANGED <<store, tool>>
       ELSE /\ Wrote(r, d1)
            /\ req' = [req EXCEPT ![r] = Begin(r, "node_request", "commit")]
            /\ UNCHANGED <<store, tool>>

\* approve_node_request lines 273-317, by a user who may manage the nodes
ApproveNodeRequest(r, name) ==
  /\ req[r].op = "idle"
  /\ IF name \notin View(r).requests
     THEN Reply(r, Begin(r, "approve", "start"), 404, View(r))
     ELSE /\ allocate_next_raises
          /\ Reply(r, Begin(r, "approve", "start"), 500, View(r))
  /\ UNCHANGED <<store, tool>>

\* get_session line 336: the handler returned
Commit(r) ==
  /\ req[r].pc = "commit"
  /\ Finish(r, 200, View(r))
  /\ UNCHANGED <<store, tool>>

\* the response has been sent: the coroutine is gone
Respond(r) ==
  /\ req[r].pc = "done"
  /\ req' = [req EXCEPT ![r] = Idle]
  /\ UNCHANGED <<db, wdb, writer, store, tool>>

\* the handlers that issue certificates, with row ids up to nodes / certs
Issuance(r, nodes, certs) ==
    \/ /\ req[r].op = "idle"
       /\ RoomForNode(nodes) /\ RoomForCert(certs)
       /\ \E name \in Hostnames, sug \in Suggestions, lh \in {"none", "true", "false"} :
            CreateStart(r, name, sug, lh)
    \/ CreateCount(r)
    \/ CreateDup(r)
    \/ CreateIsAllocated(r)
    \/ EnsureCa(r)
    \/ CaFlush(r)
    \/ AllocCheck(r)
    \/ AllocScan(r)
    \/ CreateIssue(r)
    \/ /\ req[r].op = "idle"
       /\ RoomForCert(certs)
       /\ \E name \in Hostnames :
            /\ NodesNamed(db, name) # {} \/ RoomForNode(nodes)
            /\ \E sug \in Suggestions : SignStart(r, name, sug)
    \/ SignIssue(r)
    \/ Commit(r)
    \/ Respond(r)

\* the handlers that manage existing nodes
Management(r, certs) ==
    \/ \E nid \in 1..MaxNodeId, grp \in {"none", "g"}, lh \in {"none", "true", "false"} :
         UpdateStart(r, nid, grp, lh)
    \/ UpdateCount(r)
    \/ UpdateFlush(r)
    \/ \E nid \in 1..MaxNodeId : DeleteStart(r, nid)
    \/ DeleteCount(r)
    \/ DeleteReleaseSelect(r)
    \/ DeleteUnlink(r)
    \/ DeleteRows(r)
    \/ \E nid \in 1..MaxNodeId : RevokeStart(r, nid)
    \/ RevokeWrite(r)
    \/ /\ req[r].op = "idle"
       /\ RoomForCert(certs)
       /\ \E nid \in 1..MaxNodeId : ReenrollStart(r, nid)
    \/ ReenrollRevoke(r)
    \/ ReenrollNetwork(r)
    \/ ReenrollIssue(r)
    \/ \E nid \in 1..MaxNodeId : HeartbeatStart(r, nid)
    \/ HeartbeatFlush(r)
    \/ \E name \in RequestNames, auto \in BOOLEAN : CreateNodeRequest(r, name, auto)
    \/ \E name \in RequestNames : ApproveNodeRequest(r, name)

\* Spec: the requests arrive one after the other (every handler)
Next == Issuance(1, MaxNodeId, MaxCertId) \/ Management(1, MaxCertId)

Spec == Init /\ [][Next]_vars

\* ConcSpec: certificate requests in flight together
ConcNext == \E r \in Slots : Issuance(r, ConcMaxNodeId, ConcMaxCertId)

ConcSpec == Init /\ [][ConcNext]_vars

(* ------------------- IPAllocator, called directly -------------------- *)
\* what a caller may pass as suggested_ip: nothing, or any address
AllocSuggestions == {NoIp} \cup Addresses

\* is_allocated (ip_allocator.py 91-99) on the rows d
is_allocated(d, a) ==
  IF d.alloc[a] > 1 THEN "MultipleResultsFound"
  ELSE IF d.alloc[a] = 1 THEN "true" ELSE "false"

\* a session calls allocate(network, cidr, sug)
AllocateStart(r, sug) ==
  /\ req[r].op = "idle"
  /\ req' = [req EXCEPT ![r] = [Begin(r, "allocate", AllocEntry(sug)) EXCEPT !.sug = sug]]
  /\ UNCHANGED <<db, wdb, writer, store, tool>>

\* lines 48-54 and 68-74: add the AllocatedIP row, flush, return the address
AllocFlush(r) ==
  /\ req[r].op = "allocate" /\ req[r].pc = "issue"
  /\ Wrote(r, InsertAlloc(View(r), req[r].ip))
  /\ Goto(r, "commit")
  /\ UNCHANGED <<store, tool>>

\* a session calls release(network, a)
ReleaseStart(r, a) ==
  /\ req[r].op = "idle"
  /\ req' = [req EXCEPT ![r] = [Begin(r, "release", "release_select") EXCEPT !.ip = a]]
  /\ UNCHANGED <<db, wdb, writer, store, tool>>

\* lines 80-87: SELECT the allocation row
ReleaseSelect(r) ==
  /\ req[r].op = "release" /\ req[r].pc = "release_select"
  /\ LET n == View(r).alloc[req[r].ip] IN
       IF n > 1
       THEN \* scalar_one_or_none: MultipleResultsFound
            /\ Finish(r, 500, View(r))
            /\ UNCHANGED <<store, tool>>
       ELSE /\ Goto(r, IF n = 1 THEN "release_delete" ELSE "commit")
            /\ UNCHANGED <<db, wdb, writer, store, tool>>

\* lines 88-89: DELETE the row, flush
ReleaseDelete(r) ==
  /\ req[r].op = "release" /\ req[r].pc = "release_delete"
  /\ Wrote(r, DeleteAlloc(View(r), req[r].ip))
  /\ Goto(r, "commit")
  /\ UNCHANGED <<store, tool>>

\* AllocSpec: sessions in flight together, each calling one method of the
\* allocator in its own transaction
\* the sessions that call the allocator: two at a time
AllocSessions == {r \in Slots : r <= 2}

AllocNext ==
  \E r \in AllocSessions :
    \/ \E sug \in AllocSuggestions : AllocateStart(r, sug)
    \/ AllocCheck(r)
    \/ AllocScan(r)
    \/ AllocFlush(r)
    \/ \E a \in Hosts : ReleaseStart(r, a)
    \/ ReleaseSelect(r)
    \/ ReleaseDelete(r)
    \/ Commit(r)
    \/ Respond(r)

AllocSpec == Init /\ [][AllocNext]_vars

(* ------------------ config_generator: firewall section --------------- *)
\* a port_range string, split at its commas: "any" (or empty), or parts that
\* are a number, a range "lo-hi", or text that int() rejects
PortLimit == 65535
PortNumbers == {22, 81, PortLimit + 1}
RangeEnds == {80, 82}
MaxParts == 2
PortParts ==
  {[k |-> "port", lo |-> p, hi |-> p] : p \in PortNumbers}
    \cup {[k |-> "range", lo |-> a, hi |-> b] : a \in RangeEnds, b \in RangeEnds}
    \cup {[k |-> "junk", lo |-> 0, hi |-> 0]}
PortRanges ==
  {[any |-> TRUE, parts |-> <<>>]}
    \cup {[any |-> FALSE, parts |-> ps] :
            ps \in UNION {[1..n -> PortParts] : n \in 1..MaxParts}}

\* the "port" of a rule whose port is "any"
AnyPort == -1
\* a key that a rule or a section does not have
Absent == "-"

FromTo(lo, hi) == [i \in 1..(hi - lo + 1) |-> lo + i - 1]

\* _parse_port_range, lines 135-151: the ports of one comma-separated part
part_ports(part) ==
  IF part.k = "range"
  THEN IF part.lo <= part.hi /\ 0 <= part.lo /\ part.lo <= PortLimit
          /\ 0 <= part.hi /\ part.hi <= PortLimit
       THEN FromTo(part.lo, part.hi) ELSE <<>>
  ELSE IF part.k = "port"
  THEN IF 0 <= part.lo /\ part.lo <= PortLimit THEN <<part.lo>> ELSE <<>>
  ELSE <<>>

RECURSIVE parts_ports(_)
parts_ports(ps) == IF ps = <<>> THEN <<>> ELSE part_ports(Head(ps)) \o parts_ports(Tail(ps))

\* _parse_port_range: [any |-> TRUE] stands for None
parse_port_range(pr) ==
  IF pr.any THEN [any |-> TRUE, ports |-> <<>>]
  ELSE LET ports == parts_ports(pr.parts) IN
       IF ports = <<>> THEN [any |-> TRUE, ports |-> <<>>]
       ELSE [any |-> FALSE, ports |-> ports]

\* .strip().lower() of the protocols the API stores, then lines 170-171
Protocols == {"tcp", " TCP", "icmp"}
protocol_of(p) == IF p = " TCP" THEN "tcp" ELSE p

\* allowed_group as update_group_firewall stores it: never blank
\* (_validate_inbound_rule, networks.py 374-375)
GroupNames == {"web", "db"}
InboundRule == [allowed_group : GroupNames, protocol : Protocols, port_range : PortRanges]

\* _inbound_rules_from_group_firewall
RECURSIVE inbound_rules_from_group_firewall(_)
inbound_rules_from_group_firewall(rules) ==
  IF rules = <<>> THEN <<>>
  ELSE LET r == Head(rules)
           rest == inbound_rules_from_group_firewall(Tail(rules))
           ports == parse_port_range(r.port_range)
           proto == protocol_of(r.protocol) IN
       IF r.allowed_group = "" THEN rest
       ELSE IF ports.any
       THEN <<[port |-> AnyPort, proto |-> proto, group |-> r.allowed_group,
               host |-> Absent]>> \o rest
       ELSE [i \in 1..Len(ports.ports) |->
               [port |-> ports.ports[i], proto |-> proto, group |-> r.allowed_group,
                host |-> Absent]] \o rest

AllowAll == [port |-> AnyPort, proto |-> "any", group |-> Absent, host |-> "any"]

\* _firewall_section: groups is node.groups, gfs the network's group firewall
\* rows (group_name -> inbound_rules)
firewall_section_last_group(groups, gfs) ==
  LET node_group == IF Len(groups) > 0 THEN groups[Len(groups)] ELSE ""
      raw == IF node_group # "" /\ node_group \in DOMAIN gfs
             THEN gfs[node_group] ELSE <<>> IN
  IF raw = <<>>
  THEN [inbound_action |-> Absent, inbound |-> <<AllowAll>>]
  ELSE LET inbound == inbound_rules_from_group_firewall(raw) IN
       [inbound_action |-> "drop",
        inbound |-> IF inbound = <<>> THEN <<AllowAll>> ELSE inbound]
firewall_section(groups, gfs) ==
  LET node_group == IF Len(groups) > 0 THEN groups[1] ELSE ""
      raw == IF node_group # "" /\ node_group \in DOMAIN gfs
             THEN gfs[node_group] ELSE <<>> IN
  IF raw = <<>>
  THEN [inbound_action |-> Absent, inbound |-> <<AllowAll>>]
  ELSE LET inbound == inbound_rules_from_group_firewall(raw) IN
       [inbound_action |-> "drop",
        inbound |-> IF inbound = <<>> THEN <<AllowAll>> ELSE inbound]

\* the inputs: the node's groups and the group firewall rows of its network
NodeGroups == {<<>>, <<"g">>, <<"g", "h">>, <<"h", "g">>}
OtherRules == <<[allowed_group |-> "web", protocol |-> "icmp",
                 port_range |-> [any |-> TRUE, parts |-> <<>>]]>>
GroupFirewalls ==
  LET first == {<<>>, OtherRules} \cup {<<r>> : r \in InboundRule}
      other == {<<>>, OtherRules} IN
    {<<>>} \cup {"g" :> x : x \in first} \cup {"h" :> y : y \in other}
      \cup {("g" :> x) @@ ("h" :> y) : x \in first, y \in other}

\* generate_config_for_node, lines 283-304: the node and the rows are loaded
ConfigStart(r, groups, gfs) ==
  /\ req[r].op = "idle"
  /\ req' = [req EXCEPT ![r] = [op |-> "config", pc |-> "build", status |-> 0,
                                groups |-> groups, gfs |-> gfs,
                                section |-> [inbound_action |-> Absent, inbound |-> <<>>]]]
  /\ UNCHANGED <<db, wdb, writer, store, tool>>

\* build_config, line 267
ConfigBuild(r) ==
  /\ req[r].op = "config" /\ req[r].pc = "build"
  /\ Reply(r, [req[r] EXCEPT !.section = firewall_section(req[r].groups, req[r].gfs)],
           200, View(r))
  /\ UNCHANGED <<store, tool>>

FwNext ==
  \/ /\ req[1].op = "idle"
     /\ \E groups \in NodeGroups, gfs \in GroupFirewalls : ConfigStart(1, groups, gfs)
  \/ ConfigBuild(1)
  \/ Respond(1)

\* FwSpec: configs are generated for nodes of any group under any rows
FwSpec == Init /\ [][FwNext]_vars

(* -------------------- DELETE /api/networks/{id} ---------------------- *)
\* the network as create_network leaves it (networks.py 162-188): its row,
\* the owner's NetworkPermission row and its NetworkSettings row
NetInit ==
  /\ db = [nodes |-> {}, alloc |-> [a \in Addresses |-> 0], certs |-> {},
           ca_path |-> FALSE, requests |-> {}, network |-> TRUE,
           permissions |-> TRUE, settings |-> TRUE, group_firewalls |-> {}]
  /\ wdb = db
  /\ writer = 0
  /\ store = [ca_crt |-> 0, ca_key |-> 0, crt |-> [h \in Hostnames |-> NoFile],
              key |-> [h \in Hostnames |-> NoFile]]
  /\ req = [r \in Slots |-> Idle]
  /\ tool = [ca_ok |-> 0, ca_refused |-> FALSE]

\* PUT /api/networks/{id}/group-firewall/{group} (networks.py 470-490)
PutGroupFirewall(r, g) ==
  /\ req[r].op = "idle"
  /\ Wrote(r, [View(r) EXCEPT !.group_firewalls = @ \cup {g}])
  /\ req' = [req EXCEPT ![r] = Begin(r, "put_group_firewall", "commit")]
  /\ UNCHANGED <<store, tool>>

\* the relationships of Network without a delete cascade whose rows hold a
\* NOT NULL networks.id (models/db.py 38-53, 80, 188, 202, 248, 292): at the
\* flush of session.delete(network) the ORM sets their network_id to NULL
Dependents(d) ==
  {t \in {"nodes", "allocated_ips", "network_permissions", "network_settings",
          "node_requests"} :
     \/ t = "nodes" /\ d.nodes # {}
     \/ t = "allocated_ips" /\ Used(d) # {}
     \/ t = "network_permissions" /\ d.permissions
     \/ t = "network_settings" /\ d.settings
     \/ t = "node_requests" /\ d.requests # {}}

\* delete_network, lines 309-353: the network is loaded; the caller is its
\* owner, has reauthenticated and has confirmed the name
DeleteNetworkStart(r) ==
  /\ req[r].op = "idle"
  /\ IF ~View(r).network
     THEN /\ Reply(r, [op |-> "delete_network", pc |-> "start", status |-> 0,
                       cause |-> ""], 404, View(r))
          /\ UNCHANGED <<store, tool>>
     ELSE /\ req' = [req EXCEPT ![r] = [op |-> "delete_network", pc |-> "flush",
                                        status |-> 0, cause |-> ""]]
          /\ UNCHANGED <<db, wdb, writer, store, tool>>

\* lines 355-357: session.delete(network), flush. The first UPDATE that sets
\* a network_id to NULL fails (IntegrityError); which table comes first is
\* the unit of work's order. Without such rows the group firewall rows
\* (cascade "all, delete-orphan") and the network row are deleted.
DeleteNetworkFlush(r) ==
  /\ req[r].op = "delete_network" /\ req[r].pc = "flush"
  /\ CanWrite(r)
  /\ IF Dependents(View(r)) # {}
     THEN \E t \in Dependents(View(r)) :
            /\ Reply(r, [req[r] EXCEPT !.cause = t], 500, View(r))
            /\ UNCHANGED <<store, tool>>
     ELSE /\ Wrote(r, [View(r) EXCEPT !.network = FALSE, !.group_firewalls = {}])
          /\ Goto(r, "commit")
          /\ UNCHANGED <<store, tool>>

\* NetSpec: nodes are created, group firewall rows written and the network
\* deleted, one request after the other
NetNext ==
  \/ Issuance(1, MaxNodeId, MaxCertId)
  \/ \E g \in {"g", "h"} : PutGroupFirewall(1, g)
  \/ DeleteNetworkStart(1)
  \/ DeleteNetworkFlush(1)

NetSpec == NetInit /\ [][NetNext]_vars

(* ------------------------- the certificate store --------------------- *)
\* In StoreSpec a file of the store is what its bytes are: absent, plaintext
\* PEM, or MAGIC + a token made under some encryption key; the steps of
\* ensure_ca and of the three issuance paths are taken one external call or
\* file write at a time.
NoStoreFile == [present |-> FALSE, magic |-> FALSE, key |-> 0]
\* what nebula-cert writes
Plaintext == [present |-> TRUE, magic |-> FALSE, key |-> 0]
\* the keys the process may have been started with
EncryptionKeys == {1, 2}

\* encryption.py lines 36-41: MAGIC + token under the loaded key k
encrypt(k) == [present |-> TRUE, magic |-> TRUE, key |-> k]
\* encryption.py lines 44-53: missing magic, or a token the loaded key k does
\* not open, raises ValueError
decrypt(f, k) == IF f.magic /\ f.key = k THEN "pem" ELSE "ValueError"
\* cert_store.py lines 12-16
read_cert_store_file(f, k) ==
  IF ~f.present THEN "FileNotFoundError" ELSE decrypt(f, k)
\* Path.read_text: the bytes as they are
read_text(f) ==
  IF ~f.present THEN "FileNotFoundError"
  ELSE IF f.magic THEN "ciphertext" ELSE "pem"
Raised(c) == c \in {"FileNotFoundError", "ValueError"}

\* nebula_cert.py line 154: the prefix cert_sign falls back to
HostPrefix == 32
\* subnet_cidr of the network, by its prefix length; NoSubnet: None or ""
NoSubnet == 0
Prefixes == {24, 30}
\* cert_sign lines 148-154: the -ip argument
cert_sign_ip_host_prefix(ip, subnet_cidr) == [base |-> ip, prefixlen |-> HostPrefix]
cert_sign_ip(ip, subnet_cidr) ==
  [base |-> ip,
   prefixlen |-> IF subnet_cidr # NoSubnet THEN subnet_cidr ELSE HostPrefix]

\* rq with the locals in extra set
With(rq, extra) == extra @@ rq

StoreInit ==
  /\ \E p \in Prefixes :
       db = [nodes |-> {}, alloc |-> [a \in Addresses |-> 0], certs |-> {},
             ca_path |-> FALSE, requests |-> {}, subnet_cidr |-> p]
  /\ wdb = db
  /\ writer = 0
  /\ store = [ca_crt |-> NoStoreFile, ca_key |-> NoStoreFile,
              crt |-> [h \in Hostnames |-> NoStoreFile],
              key |-> [h \in Hostnames |-> NoStoreFile]]
  /\ req = [r \in Slots |-> Idle]
  /\ tool = [encryption_key |-> 1]

\* the process is restarted with another NEBULA_COMMANDER_ENCRYPTION_KEY
Restart(k) ==
  /\ \A r \in Slots : req[r].pc = "idle"
  /\ tool.encryption_key # k
  /\ tool' = [tool EXCEPT !.encryption_key = k]
  /\ UNCHANGED <<db, wdb, writer, store, req>>

\* ensure_ca lines 32-43: which way it goes
StoreEnsureCa(r) ==
  /\ req[r].pc = "ensure_ca"
  /\ LET way == ensure_ca(req[r].net_ca, store.ca_crt.present, store.ca_key.present) IN
       req' = [req EXCEPT ![r].ca_way = way,
                          ![r].net_ca = @ \/ way = "adopt",
                          ![r].pc = IF way = "noop" THEN AllocEntry(req[r].sug)
                                    ELSE IF way = "adopt" THEN "ca_flush"
                                    ELSE "ca_generate"]
  /\ UNCHANGED <<db, wdb, writer, store, tool>>

\* ensure_ca line 44: nebula-cert ca writes ca.crt and ca.key into the store;
\* it refuses to overwrite a file and may fail by itself
CaGenerate(r) ==
  /\ req[r].pc = "ca_generate"
  /\ \E ok \in BOOLEAN :
       IF ok /\ ~store.ca_crt.present /\ ~store.ca_key.present
       THEN /\ store' = [store EXCEPT !.ca_crt = Plaintext, !.ca_key = Plaintext]
            /\ Goto(r, "ca_encrypt_crt")
            /\ UNCHANGED <<db, wdb, writer, tool>>
       ELSE /\ Finish(r, 500, View(r))
            /\ UNCHANGED <<store, tool>>

\* ensure_ca line 46: ca.crt is read and written back encrypted (the write
\* may raise OSError)
CaEncryptCrt(r) ==
  /\ req[r].pc = "ca_encrypt_crt"
  /\ \E ok \in BOOLEAN :
       IF ok
       THEN /\ store' = [store EXCEPT !.ca_crt = encrypt(tool.encryption_key)]
            /\ Goto(r, "ca_encrypt_key")
            /\ UNCHANGED <<db, wdb, writer, tool>>
       ELSE /\ Finish(r, 500, View(r))
            /\ UNCHANGED <<store, tool>>

\* ensure_ca lines 47-49: the same for ca.key; the paths are set on the
\* Network object
CaEncryptKey(r) ==
  /\ req[r].pc = "ca_encrypt_key"
  /\ \E ok \in BOOLEAN :
       IF ok
       THEN /\ store' = [store EXCEPT !.ca_key = encrypt(tool.encryption_key)]
            /\ req' = [req EXCEPT
                         ![r].pc = IF req[r].net_ca THEN AllocEntry(req[r].sug)
                                   ELSE "ca_flush",
                         ![r].net_ca = TRUE]
            /\ UNCHANGED <<db, wdb, writer, tool>>
       ELSE /\ Finish(r, 500, View(r))
            /\ UNCHANGED <<store, tool>>

\* allocate's INSERT and flush (ip_allocator.py 48-53 / 68-73), then the CA
\* certificate and key are read for signing (cert_manager.py 87-88, 139-140,
\* 206-207)
IssueReadCa(r) ==
  /\ req[r].op \in {"create", "sign", "reenroll"} /\ req[r].pc = "issue"
  /\ CanWrite(r)
  /\ LET d1 == InsertAlloc(View(r), req[r].ip)
         k == tool.encryption_key IN
       IF \/ Raised(read_cert_store_file(store.ca_crt, k))
          \/ Raised(read_cert_store_file(store.ca_key, k))
       THEN Finish(r, 500, d1)
       ELSE Wrote(r, d1) /\ Goto(r, "cert_sign")
  /\ UNCHANGED <<store, tool>>

\* keygen (create, re-enroll) and cert_sign (cert_manager.py 89-99, 141-152,
\* 208-219): ip_cidr is the -ip argument; sign_host has the certificate
\* written into the store, the other two into a temporary directory
CertSign(r) ==
  /\ req[r].pc = "cert_sign"
  /\ LET ip_cidr == cert_sign_ip(req[r].ip, View(r).subnet_cidr) IN
     \E ok \in BOOLEAN :
       IF ~ok
       THEN /\ Reply(r, With(req[r], [ip_cidr |-> ip_cidr]), 500, View(r))
            /\ UNCHANGED <<store, tool>>
       ELSE /\ store' = IF req[r].op = "sign"
                        THEN [store EXCEPT !.crt[req[r].name] = Plaintext]
                        ELSE store
            /\ req' = [req EXCEPT ![r] =
                 With(req[r], [ip_cidr |-> ip_cidr,
                               pc |-> IF req[r].op = "sign" THEN "encrypt_crt"
                                      ELSE "write_crt"])]
            /\ UNCHANGED <<db, wdb, writer, tool>>

\* sign_host lines 100-101: the certificate is read and written back encrypted
SignEncryptCrt(r) ==
  /\ req[r].op = "sign" /\ req[r].pc = "encrypt_crt"
  /\ \E ok \in BOOLEAN :
       IF ok
       THEN /\ store' = [store EXCEPT !.crt[req[r].name] = encrypt(tool.encryption_key)]
            /\ Goto(r, "rows")
            /\ UNCHANGED <<db, wdb, writer, tool>>
       ELSE /\ Finish(r, 500, View(r))
            /\ UNCHANGED <<store, tool>>

\* cert_manager.py line 158 / 224: <hostname>.crt is written encrypted
WriteCrt(r) ==
  /\ req[r].op \in {"create", "reenroll"} /\ req[r].pc = "write_crt"
  /\ \E ok \in BOOLEAN :
       IF ok
       THEN /\ store' = [store EXCEPT !.crt[req[r].name] = encrypt(tool.encryption_key)]
            /\ Goto(r, "write_key")
            /\ UNCHANGED <<db, wdb, writer, tool>>
       ELSE /\ Finish(r, 500, View(r))
            /\ UNCHANGED <<store, tool>>

\* cert_manager.py lines 159-160 / 225-226: <hostname>.key is written encrypted
WriteKey(r) ==
  /\ req[r].op \in {"create", "reenroll"} /\ req[r].pc = "write_key"
  /\ \E ok \in BOOLEAN :
       IF ok
       THEN /\ store' = [store EXCEPT !.key[req[r].name] = encrypt(tool.encryption_key)]
            /\ Goto(r, IF req[r].op = "create" THEN "read_ca_pem" ELSE "rows")
            /\ UNCHANGED <<db, wdb, writer, tool>>
       ELSE /\ Finish(r, 500, View(r))
            /\ UNCHANGED <<store, tool>>

\* create_host_certificate lines 162-171: the CA certificate for the
\* response; every exception is logged and leaves ""
ReadCaPem(r) ==
  /\ req[r].op = "create" /\ req[r].pc = "read_ca_pem"
  /\ LET c == read_cert_store_file(store.ca_crt, tool.encryption_key) IN
       req' = [req EXCEPT ![r] =
                 With(req[r], [ca_pem |-> IF Raised(c) THEN "" ELSE c, pc |-> "rows"])]
  /\ UNCHANGED <<db, wdb, writer, store, tool>>

\* the node and certificate rows: create_certificate lines 224-248,
\* sign_certificate lines 104-137, create_host_certificate_for_existing_node
\* lines 228-241
IssueRows(r) ==
  /\ req[r].pc = "rows"
  /\ LET d == View(r)
         rows == NodesNamed(d, req[r].name)
         id == Max(NodeIds(d)) + 1
         o == req[r].orig
         new(k, lh) == [id |-> id, hostname |-> req[r].name, ip_address |-> req[r].ip,
                        public_key |-> k, cert_fingerprint |-> 0, status |-> "active",
                        is_lighthouse |-> lh, groups |-> ""] IN
       IF req[r].op = "create"
       THEN /\ Wrote(r, InsertCert([d EXCEPT !.nodes = @ \cup {new(ServerKey, req[r].is_lh)}], id))
            /\ Goto(r, "commit")
       ELSE IF req[r].op = "sign"
       THEN IF Cardinality(rows) > 1
            THEN Finish(r, 500, d)
            ELSE /\ IF rows = {}
                    THEN Wrote(r, InsertCert([d EXCEPT !.nodes = @ \cup {new(ClientKey, FALSE)}], id))
                    ELSE LET n == CHOOSE n \in rows : TRUE IN
                         Wrote(r, InsertCert(
                           UpdateNodeRow(d, n, [n EXCEPT !.ip_address = req[r].ip,
                                                        !.public_key = ClientKey,
                                                        !.status = "active"]), n.id))
                 /\ Goto(r, "sign_response")
       ELSE IF Stale(d, o)
            THEN Finish(r, 500, d)
            ELSE /\ Wrote(r, InsertCert(
                      UpdateNodeRow(d, o, [o EXCEPT !.ip_address = req[r].ip,
                                                   !.public_key = ServerKey,
                                                   !.cert_fingerprint = 0,
                                                   !.status = "active"]), o.id))
                 /\ Goto(r, "commit")
  /\ UNCHANGED <<store, tool>>

\* sign_certificate lines 139-154: the CA certificate of the response is
\* Path.read_text of the store file; every exception leaves None
SignResponse(r) ==
  /\ req[r].op = "sign" /\ req[r].pc = "sign_response"
  /\ LET c == read_text(store.ca_crt) IN
       req' = [req EXCEPT ![r] =
                 With(req[r], [ca_pem |-> IF Raised(c) THEN "None" ELSE c, pc |-> "commit"])]
  /\ UNCHANGED <<db, wdb, writer, store, tool>>

\* reenroll_node lines 346-366 (as ReenrollRevoke), the two host files unlinked
StoreUnlink(st, name) == [st EXCEPT !.crt[name] = NoStoreFile, !.key[name] = NoStoreFile]
StoreReenrollRevoke(r) ==
  /\ req[r].op = "reenroll" /\ req[r].pc = "revoke"
  /\ CanWrite(r)
  /\ LET o == req[r].orig
         d1 == RevokeCerts(View(r), o.id)
         d2 == DeleteAlloc(d1, o.ip_address)
         n == Cleared(o) IN
       IF d1.alloc[o.ip_address] > 1
       THEN /\ Finish(r, 500, d1)
            /\ UNCHANGED <<store, tool>>
       ELSE /\ store' = StoreUnlink(store, o.hostname)
            /\ IF Stale(d2, o)
               THEN /\ Finish(r, 500, d2)
                    /\ UNCHANGED tool
               ELSE /\ Wrote(r, UpdateNodeRow(d2, o, n))
                    /\ req' = [req EXCEPT ![r].pc = "ensure_ca", ![r].orig = n,
                                          ![r].node = n, ![r].net_ca = d2.ca_path]
                    /\ UNCHANGED tool

ReadStored(f) == read_cert_store_file(f, tool.encryption_key)

\* the three files a bundle is made of; raw: each is read by Path.read_text
\* (otherwise by read_cert_store_file); key_needed: a missing host key is a
\* 404 (device_config) or leaves the key out
Bundle(d, nid, raw, key_needed) ==
  LET rows == {n \in d.nodes : n.id = nid}
      n == CHOOSE n \in rows : TRUE
      crt == store.crt[n.hostname]
      key == store.key[n.hostname]
      read(f) == IF raw THEN read_text(f) ELSE ReadStored(f)
      files == <<read(store.ca_crt), read(crt),
                 IF key.present THEN read(key) ELSE "None">> IN
    IF rows = {} THEN [status |-> 404, files |-> <<>>]
    ELSE IF n.ip_address = NoIp \/ ~d.ca_path \/ ~crt.present
            \/ (key_needed /\ ~key.present) \/ ~store.ca_crt.present
    THEN [status |-> 404, files |-> <<>>]
    ELSE IF \E i \in 1..3 : Raised(files[i])
    THEN [status |-> 500, files |-> <<>>]
    ELSE [status |-> 200, files |-> files]

\* op: "node_certs" is GET /api/nodes/{id}/certs (nodes.py 117-165, the files
\* by Path.read_text), "device_certs" is GET /api/device/certs (device.py
\* 247-295) and "device_config" is GET /api/device/config (device.py 187-244),
\* both by read_cert_store_file
GetBundle(r, op, nid) ==
  /\ req[r].op = "idle"
  /\ LET b == Bundle(View(r), nid, op = "node_certs", op = "device_config") IN
       Reply(r, With(Begin(r, op, "start"), [nid |-> nid, files |-> b.files]),
             b.status, View(r))
  /\ UNCHANGED <<store, tool>>

StoreNames == {"h1"}
StoreSuggestions == {NoIp, 1}
BundleOps == {"node_certs", "device_certs", "device_config"}

StoreNext ==
  \/ /\ req[1].op = "idle"
     /\ RoomForNode(MaxNodeId) /\ RoomForCert(MaxCertId)
     /\ \E name \in StoreNames, sug \in StoreSuggestions : CreateStart(1, name, sug, "none")
  \/ CreateCount(1)
  \/ CreateDup(1)
  \/ CreateIsAllocated(1)
  \/ /\ req[1].op = "idle"
     /\ RoomForCert(MaxCertId)
     /\ \E name \in StoreNames :
          /\ NodesNamed(db, name) # {} \/ RoomForNode(MaxNodeId)
          /\ \E sug \in StoreSuggestions : SignStart(1, name, sug)
  \/ /\ req[1].op = "idle"
     /\ RoomForCert(MaxCertId)
     /\ \E nid \in 1..MaxNodeId : ReenrollStart(1, nid)
  \/ StoreReenrollRevoke(1)
  \/ StoreEnsureCa(1)
  \/ CaGenerate(1)
  \/ CaEncryptCrt(1)
  \/ CaEncryptKey(1)
  \/ CaFlush(1)
  \/ AllocCheck(1)
  \/ AllocScan(1)
  \/ IssueReadCa(1)
  \/ CertSign(1)
  \/ SignEncryptCrt(1)
  \/ WriteCrt(1)
  \/ WriteKey(1)
  \/ ReadCaPem(1)
  \/ IssueRows(1)
  \/ SignResponse(1)
  \/ \E op \in BundleOps, nid \in 1..MaxNodeId : GetBundle(1, op, nid)
  \/ \E k \in EncryptionKeys : Restart(k)
  \/ Commit(1)
  \/ Respond(1)

StoreSpec == StoreInit /\ [][StoreNext]_vars

(* ------------------------------ /api/device -------------------------- *)
\* In DevSpec db holds the nodes and the enrollment_codes rows, by code;
\* tool.issued holds the versions of the device tokens handed out, by node.
EnrollmentCodes == {"A", "B"}
\* no row with this code
NoCode == [node_id |-> 0, used |-> FALSE]
\* the bodies of POST /api/device/enroll
CodeInputs == {"", "a", "A", "B"}
\* enroll line 123: (body.code or "").strip().upper()
upper(c) == IF c = "a" THEN "A" ELSE c

\* the attributes of a loaded Node object are its mapped columns (db.py
\* 75-95); reading another attribute raises AttributeError
HasAttr(obj, a) == a \in DOMAIN obj

\* a bearer credential: none, a JWT that does not verify, or the payload
\* (node_id, ver) of one that does (oidc.py 160-177)
MaxVersion == 2
NoToken == [form |-> "none", node_id |-> 0, ver |-> 0]
BadToken == [form |-> "invalid", node_id |-> 0, ver |-> 0]
DeviceTokens ==
  {NoToken, BadToken} \cup [form : {"jwt"}, node_id : 1..2, ver : 1..MaxVersion]
\* create_device_token (oidc.py 144-157)
create_device_token(node_id, version) == [form |-> "jwt", node_id |-> node_id, ver |-> version]

\* a network with one node that has a certificate
DevInit ==
  /\ db = [nodes |-> {[id |-> 1, hostname |-> "h1", ip_address |-> 1,
                       public_key |-> ServerKey, cert_fingerprint |-> 0,
                       status |-> "active", is_lighthouse |-> TRUE, groups |-> ""]},
           codes |-> [c \in EnrollmentCodes |-> NoCode]]
  /\ wdb = db
  /\ writer = 0
  /\ store = <<>>
  /\ req = [r \in Slots |-> Idle]
  /\ tool = [issued |-> [n \in 1..2 |-> {}]]

\* create_enrollment_code (device.py 52-98); c: the random code
CreateEnrollmentCode(r, nid, c) ==
  /\ req[r].op = "idle"
  /\ CanWrite(r)
  /\ LET rows == {n \in View(r).nodes : n.id = nid}
         rq == With(Begin(r, "enrollment_code", "start"), [nid |-> nid, code |-> c]) IN
       IF rows = {}
       THEN Reply(r, rq, 404, View(r))
       ELSE IF \E n \in rows : n.ip_address = NoIp
       THEN Reply(r, rq, 400, View(r))
       ELSE IF View(r).codes[c] # NoCode
       THEN \* unique constraint on code
            Reply(r, rq, 500, View(r))
       ELSE Reply(r, rq, 200,
                  [View(r) EXCEPT !.codes[c] = [node_id |-> nid, used |-> FALSE]])
  /\ UNCHANGED <<store, tool>>

\* enroll lines 122-154: the code is looked up; late: utcnow() is past
\* expires_at
EnrollStart(r, body, late) ==
  /\ req[r].op = "idle"
  /\ LET code == upper(body)
         rq == With(Begin(r, "enroll", "mark_used"), [code |-> code]) IN
       IF code = ""
       THEN Reply(r, rq, 400, View(r))
       ELSE IF View(r).codes[code] = NoCode
       THEN Reply(r, rq, 404, View(r))
       ELSE IF View(r).codes[code].used \/ late
       THEN Reply(r, rq, 400, View(r))
       ELSE /\ req' = [req EXCEPT ![r] = rq]
            /\ UNCHANGED <<db, wdb, writer>>
  /\ UNCHANGED <<store, tool>>

\* enroll lines 155-156: rec.used_at is set and flushed
EnrollMarkUsed(r) ==
  /\ req[r].op = "enroll" /\ req[r].pc = "mark_used"
  /\ Wrote(r, [View(r) EXCEPT !.codes[req[r].code].used = TRUE])
  /\ Goto(r, "node")
  /\ UNCHANGED <<store, tool>>

\* enroll lines 157-160: SELECT the node of the code
EnrollNode(r) ==
  /\ req[r].op = "enroll" /\ req[r].pc = "node"
  /\ LET rows == {n \in View(r).nodes : n.id = View(r).codes[req[r].code].node_id} IN
       IF rows = {}
       THEN Finish(r, 404, View(r))
       ELSE /\ req' = [req EXCEPT ![r].node = CHOOSE n \in rows : TRUE, ![r].pc = "bump"]
            /\ UNCHANGED <<db, wdb, writer>>
  /\ UNCHANGED <<store, tool>>

\* enroll lines 170-182: node.device_token_version is read, bumped and
\* flushed, and the token of the new version is returned
EnrollBump(r) ==
  /\ req[r].op = "enroll" /\ req[r].pc = "bump"
  /\ LET node == req[r].node IN
       IF ~HasAttr(node, "device_token_version")
       THEN \* AttributeError
            /\ Finish(r, 500, View(r))
            /\ UNCHANGED tool
       ELSE LET version == node.device_token_version + 1
                d == [View(r) EXCEPT !.nodes = (@ \ {node}) \cup
                        {[node EXCEPT !.device_token_version = version]}] IN
            /\ CanWrite(r)
            /\ Reply(r, With(req[r], [token |-> create_device_token(node.id, version)]),
                     200, d)
            /\ tool' = [tool EXCEPT !.issued[node.id] = @ \cup {version}]
  /\ UNCHANGED store

\* require_device_token (oidc.py 180-216)
RequireDeviceToken(r, tok) ==
  /\ req[r].op = "idle"
  /\ LET rq == With(Begin(r, "device_auth", "start"), [token |-> tok])
         rows == {n \in View(r).nodes : n.id = tok.node_id} IN
       IF tok.form # "jwt" \/ rows = {}
       THEN Reply(r, rq, 401, View(r))
       ELSE LET node == CHOOSE n \in rows : TRUE IN
            IF ~HasAttr(node, "device_token_version")
            THEN \* AttributeError
                 Reply(r, rq, 500, View(r))
            ELSE Reply(r, rq, IF node.device_token_version # tok.ver THEN 401 ELSE 200,
                       View(r))
  /\ UNCHANGED <<store, tool>>

DevNext ==
  \E r \in Slots :
    \/ \E nid \in 1..2, c \in EnrollmentCodes : CreateEnrollmentCode(r, nid, c)
    \/ \E body \in CodeInputs, late \in BOOLEAN : EnrollStart(r, body, late)
    \/ EnrollMarkUsed(r)
    \/ EnrollNode(r)
    \/ EnrollBump(r)
    \/ \E tok \in DeviceTokens : RequireDeviceToken(r, tok)
    \/ Respond(r)

DevSpec == DevInit /\ [][DevNext]_vars

(* -------------------- middleware/rate_limit.py ------------------------- *)
\* limits are scaled down the way test_rate_limit.py overrides them
MaxRequests == 1
WindowSeconds == 2
MaxTime == 2
MaxCalls == 3

\* a path is the sequence of its segments: "/api/device/config" is
\* <<"api", "device", "config">>
DeviceConfig == <<"api", "device", "config">>
InvitationsPublic == <<"api", "invitations", "public">>
NoPattern == <<>>
\* self.limits, in dictionary order
Patterns == <<DeviceConfig, InvitationsPublic>>
limits(pattern) ==
  IF pattern = DeviceConfig THEN <<MaxRequests, WindowSeconds>>
  ELSE <<1, WindowSeconds>>

\* path.startswith(pattern + "/")
startswith(path, pattern) ==
  /\ Len(path) > Len(pattern)
  /\ SubSeq(path, 1, Len(pattern)) = pattern
matches(path, pattern) == path = pattern \/ startswith(path, pattern)

\* the loop over self.limits: the first pattern that matches
endpoint_id(path) ==
  LET hits == {i \in DOMAIN Patterns : matches(path, Patterns[i])} IN
    IF hits = {} THEN NoPattern
    ELSE Patterns[CHOOSE i \in hits : \A j \in hits : i <= j]

strip(h) == IF h = " " THEN "" ELSE h

client_id_ip_only(request, endpoint) == request.host
client_id(request, endpoint) ==
  IF endpoint = DeviceConfig /\ strip(request.authorization) # ""
  THEN strip(request.authorization)
  ELSE request.host

limit_exceeded_off_by_one(n, max_requests) == n > max_requests
limit_exceeded(n, max_requests) == n >= max_requests

RateRequests ==
  {[path |-> DeviceConfig, host |-> "ip1", authorization |-> "Bearer a"],
   [path |-> DeviceConfig, host |-> "ip1", authorization |-> "Bearer b"],
   [path |-> DeviceConfig, host |-> "ip1", authorization |-> ""],
   [path |-> DeviceConfig, host |-> "ip2", authorization |-> " "],
   [path |-> InvitationsPublic \o <<"abc">>, host |-> "ip1", authorization |-> ""],
   [path |-> InvitationsPublic \o <<"def">>, host |-> "ip1", authorization |-> ""],
   [path |-> <<"api", "device", "configs">>, host |-> "ip1",
    authorization |-> "Bearer a"]}
ClientIds == {"ip1", "ip2", "Bearer a", "Bearer b"}
Buckets == ClientIds \X {DeviceConfig, InvitationsPublic}

\* req: the requests answered so far, each with its answer; tool: the
\* middleware's self.requests and the clock
RateInit ==
  /\ db = <<>>
  /\ wdb = <<>>
  /\ writer = 0
  /\ store = <<>>
  /\ req = <<>>
  /\ tool = [requests |-> [k \in Buckets |-> <<>>], now |-> 0]

Tick ==
  /\ tool.now < MaxTime
  /\ tool' = [tool EXCEPT !.now = @ + 1]
  /\ UNCHANGED <<db, wdb, writer, store, req>>

Answered(request, status, handled) ==
  Append(req, With(request, [at |-> tool.now, status |-> status,
                             handled |-> handled]))

\* RateLimitMiddleware.dispatch; no await before call_next
Dispatch(request) ==
  /\ Len(req) < MaxCalls
  /\ LET endpoint == endpoint_id(request.path) IN
       IF endpoint = NoPattern
       THEN /\ req' = Answered(request, 200, TRUE)
            /\ UNCHANGED tool
       ELSE LET max_requests == limits(endpoint)[1]
                window_seconds == limits(endpoint)[2]
                key == <<client_id(request, endpoint), endpoint>>
                kept == SelectSeq(tool.requests[key],
                                  LAMBDA ts : tool.now - ts < window_seconds) IN
              IF limit_exceeded(Len(kept), max_requests)
              THEN /\ tool' = [tool EXCEPT !.requests[key] = kept]
                   /\ req' = Answered(request, 429, FALSE)
              ELSE /\ tool' = [tool EXCEPT !.requests[key] = Append(kept, tool.now)]
                   /\ req' = Answered(request, 200, TRUE)
  /\ UNCHANGED <<db, wdb, writer, store>>

RateNext ==
  \/ Tick
  \/ \E request \in RateRequests : Dispatch(request)

RateSpec == RateInit /\ [][RateNext]_vars

(* ---------------- config_generator: topology sections ----------------- *)
MaxPeers == 2
NoEndpoint == ""
\* public_endpoint as the API stores it: stripped, None when blank
Endpoints == {NoEndpoint, "e1:4242", "http://e1:4242"}

\* _normalize_endpoint
normalize_endpoint(endpoint) ==
  IF endpoint = "http://e1:4242" THEN "e1:4242" ELSE endpoint

\* _default_static_host_map: a later pair replaces an earlier one of the
\* same address; build_config lines 265, 270-271: no key when it is empty
RECURSIVE default_static_host_map(_)
default_static_host_map(hosts) ==
  IF hosts = <<>> THEN <<>>
  ELSE LET last == hosts[Len(hosts)] IN
         (last.ip_address :> <<normalize_endpoint(last.public_endpoint)>>)
           @@ default_static_host_map(SubSeq(hosts, 1, Len(hosts) - 1))

relay_section_always_upstream(node, other_relay_ips) ==
  [am_relay |-> node.is_relay, use_relays |-> TRUE, relays |-> other_relay_ips]
relay_section(node, other_relay_ips) ==
  IF node.is_relay
  THEN [am_relay |-> TRUE, use_relays |-> TRUE, relays |-> <<>>]
  ELSE [am_relay |-> FALSE, use_relays |-> TRUE, relays |-> other_relay_ips]

IpsOf(nodes) == [i \in 1..Len(nodes) |-> nodes[i].ip_address]

\* build_config lines 242-271: static_host_map, lighthouse.hosts, relay
build_config(node, peer_nodes) ==
  LET hosts_with_endpoint ==
        SelectSeq(peer_nodes, LAMBDA n : (n.is_lighthouse \/ n.is_relay)
                    /\ n.public_endpoint # NoEndpoint /\ n.ip_address # NoIp)
      lighthouses_with_endpoint ==
        SelectSeq(peer_nodes, LAMBDA n : n.is_lighthouse
                    /\ n.public_endpoint # NoEndpoint /\ n.ip_address # NoIp)
      other_lighthouse_ips ==
        IpsOf(SelectSeq(lighthouses_with_endpoint,
                        LAMBDA n : n.ip_address # node.ip_address))
      other_relay_ips ==
        IpsOf(SelectSeq(peer_nodes, LAMBDA n : n.is_relay /\ n.ip_address # NoIp
                          /\ n.ip_address # node.ip_address)) IN
    [static_host_map |-> IF hosts_with_endpoint = <<>> THEN Absent
                         ELSE default_static_host_map(hosts_with_endpoint),
     lighthouse |-> [am_lighthouse |-> node.is_lighthouse,
                     hosts |-> other_lighthouse_ips],
     relay |-> relay_section(node, other_relay_ips)]

\* the nodes of a network as requests served one after the other leave
\* them: the addresses are pairwise distinct (the node's is 1, the i-th
\* peer's is i + 1), any of them may be unset
TopoNodes ==
  [has_ip : BOOLEAN, is_lighthouse : BOOLEAN, is_relay : BOOLEAN,
   public_endpoint : Endpoints]
TopoRow(shape, a) ==
  [ip_address |-> IF shape.has_ip THEN a ELSE NoIp,
   is_lighthouse |-> shape.is_lighthouse, is_relay |-> shape.is_relay,
   public_endpoint |-> shape.public_endpoint]
PeerShapes == UNION {[1..n -> TopoNodes] : n \in 0..MaxPeers}

\* generate_config_for_node, lines 283-302: the node and its peers are loaded
TopoStart(r, node, peers) ==
  /\ req[r].op = "idle"
  /\ req' = [req EXCEPT ![r] =
       [op |-> "topology", pc |-> "build", status |-> 0,
        node |-> TopoRow(node, 1),
        peer_nodes |-> [i \in 1..Len(peers) |-> TopoRow(peers[i], i + 1)],
        config |-> Absent]]
  /\ UNCHANGED <<db, wdb, writer, store, tool>>

\* build_config
TopoBuild(r) ==
  /\ req[r].op = "topology" /\ req[r].pc = "build"
  /\ Reply(r, [req[r] EXCEPT !.config = build_config(req[r].node, req[r].peer_nodes)],
           200, View(r))
  /\ UNCHANGED <<store, tool>>

TopoNext ==
  \/ /\ req[1].op = "idle"
     /\ \E node \in TopoNodes, peers \in PeerShapes : TopoStart(1, node, peers)
  \/ TopoBuild(1)
  \/ Respond(1)

TopoSpec == Init /\ [][TopoNext]_vars

(* ------------------------------ properties --------------------------- *)
\* coroutine r takes this step
Steps(r) == req'[r] # req[r]
\* the request r works on in this step (a first step: the one it takes up)
Acting(r) == IF req[r].pc = "idle" THEN req'[r] ELSE req[r]
\* this step ends r's request
Ends(r) == req[r].pc # "done" /\ req'[r].pc = "done"
\* no request is in flight
Quiet == InFlight = {}

NodeOf(d, nid) == CHOOSE n \in d.nodes : n.id = nid
CertsOf(d, nid) == {c \in d.certs : c.node_id = nid}
Unrevoked(d, nid) == {c \in CertsOf(d, nid) : ~c.revoked}

\* node nid is the only lighthouse
OnlyLighthouse(d, nid) == \E n \in d.nodes : n.id = nid /\ Lighthouses(d) = {n}
\* request q asks to delete a node or to clear its lighthouse flag
RemovesLighthouse(q) ==
  \/ q.op = "delete"
  \/ q.op = "update" /\ q.lh = "false"

\* this step is r's call of ensure_ca
EnsureCaCall(r) == req[r].pc = "ensure_ca" /\ Steps(r)
\* both CA files are on the store
CaPresent(st) == st.ca_crt # 0 /\ st.ca_key # 0

\* C1: no address is held by two allocation rows, neither in the committed
\* database nor in the transaction of a session, and every allocated address
\* is a usable host address of the CIDR -- under any interleaving of
\* certificate requests (ConcSpec).
C1_AllocationUnique ==
  \A a \in Addresses :
    /\ db.alloc[a] <= 1
    /\ wdb.alloc[a] <= 1
    /\ (db.alloc[a] > 0 \/ wdb.alloc[a] > 0) => a \in Hosts

\* C2: in every committed state a network that has a node has a lighthouse.
C2_LighthouseFloor == db.nodes # {} => Lighthouses(db) # {}

\* C3: a node update that clears the lighthouse flag of the network's only
\* lighthouse, or a delete of the only lighthouse, changes nothing at any of
\* its steps -- no committed row, no row of a transaction, no file -- and ends
\* with 409.
C3_RejectionChangesNothing ==
  [][\A r \in Slots :
       (Steps(r) /\ RemovesLighthouse(Acting(r)) /\ OnlyLighthouse(db, Acting(r).nid))
         => /\ db' = db /\ wdb' = wdb /\ store' = store
            /\ Ends(r) => req'[r].status = 409]_vars

\* the update came with a group change, which the handler had already applied
\* to its Node object when it raised
C3_Witness ==
  \E r \in Slots :
    /\ req[r].op = "update" /\ req[r].pc = "done" /\ req[r].status = 409
    /\ req[r].grp = "g" /\ req[r].node.groups = "g"
    /\ OnlyLighthouse(db, req[r].nid)
    /\ NodeOf(db, req[r].nid).groups = ""

\* C4: when a revoke of a node that holds address a succeeds, a has no
\* allocation row (so allocate may return it) and the node has no address, no
\* public key and no fingerprint; when a re-enroll succeeds, the node has an
\* allocated host address and a public key, is active, and has exactly one
\* certificate row more than before, an unrevoked one.
C4_RevokeReissue ==
  [][\A r \in Slots :
       (Ends(r) /\ req'[r].status = 200 /\ req[r].op \in {"revoke", "reenroll"})
         => LET o == NodeOf(db, req[r].nid)
                n == NodeOf(db', req[r].nid)
                new == CertsOf(db', o.id) \ CertsOf(db, o.id) IN
            /\ (req[r].op = "revoke" /\ o.ip_address # NoIp)
                 => /\ db'.alloc[o.ip_address] = 0
                    /\ o.ip_address \in Hosts \ Used(db')
                    /\ n.ip_address = NoIp
                    /\ n.public_key = NoKey
                    /\ n.cert_fingerprint = 0
            /\ req[r].op = "reenroll"
                 => /\ n.ip_address \in Hosts
                    /\ db'.alloc[n.ip_address] = 1
                    /\ n.public_key # NoKey
                    /\ n.status = "active"
                    /\ Cardinality(CertsOf(db', o.id)) = Cardinality(CertsOf(db, o.id)) + 1
                    /\ \E c \in Unrevoked(db', o.id) :
                         c.id \notin {x.id : x \in CertsOf(db, o.id)}]_vars

\* a re-enroll of a revoked node has succeeded
C4_Witness ==
  \E r \in Slots :
    /\ req[r].op = "reenroll" /\ req[r].pc = "done" /\ req[r].status = 200
    /\ req[r].orig.status = "revoked"
    /\ NodeOf(db, req[r].nid).ip_address \in Hosts
    /\ \E c \in CertsOf(db, req[r].nid) : c.revoked

\* C5: whenever no request is in flight, an active node has an allocated
\* address and a stored host certificate, and a revoked node has no address,
\* no public key and no host files.
C5_LifecycleConsistent ==
  Quiet =>
    \A n \in db.nodes :
      /\ n.status = "active"
           => /\ n.ip_address # NoIp
              /\ db.alloc[n.ip_address] > 0
              /\ store.crt[n.hostname].present
      /\ n.status = "revoked"
           => /\ n.ip_address = NoIp
              /\ n.public_key = NoKey
              /\ ~store.crt[n.hostname].present
              /\ ~store.key[n.hostname].present

\* C6: a node has at most one unrevoked certificate row, and if it has one it
\* is the most recently issued of the node's rows.
C6_OneUnrevoked ==
  \A n \in db.nodes :
    /\ Cardinality(Unrevoked(db, n.id)) <= 1
    /\ \A c \in Unrevoked(db, n.id) : c.id = Max({x.id : x \in CertsOf(db, n.id)})

\* C7: no two node rows of the network have the same hostname -- under any
\* interleaving of certificate requests (ConcSpec).
C7_HostnameUnique ==
  \A n1, n2 \in db.nodes : n1.hostname = n2.hostname => n1 = n2

\* C8: a call of ensure_ca that returns leaves the CA recorded and its files
\* present, invoking generate-CA once if there were no CA files; a call made
\* in such a state invokes nothing and changes nothing.
C8_EnsureCaIdempotent ==
  [][\A r \in Slots :
       EnsureCaCall(r)
         => /\ req'[r].pc # "done"
                 => /\ req'[r].net_ca /\ CaPresent(store')
                    /\ tool'.ca_ok = tool.ca_ok + (IF CaFiles(store) = {} THEN 1 ELSE 0)
            /\ (req[r].net_ca /\ CaPresent(store))
                 => /\ tool' = tool /\ store' = store
                    /\ db' = db /\ wdb' = wdb
                    /\ req'[r].net_ca
                    /\ req'[r].pc \notin {"ca_flush", "done"}]_vars

\* a request found the CA recorded and present and went on
C8_Witness ==
  \E r \in Slots :
    /\ req[r].ca_way = "noop" /\ req[r].pc \notin {"idle", "done"}
    /\ tool.ca_ok = 1 /\ CaFiles(store) = {1} /\ db.ca_path

\* C9: generate-CA is never invoked while CA files are present; a call of
\* ensure_ca that finds them present but not recorded invokes nothing, leaves
\* the files as they are and records the paths, which its flush writes.
C9_AdoptExistingCa ==
  /\ [](~tool.ca_refused)
  /\ [][\A r \in Slots :
          /\ (EnsureCaCall(r) /\ ~req[r].net_ca /\ CaFiles(store) # {})
               => /\ tool' = tool /\ store' = store
                  /\ req'[r].net_ca /\ req'[r].pc = "ca_flush"
          /\ (req[r].pc = "ca_flush" /\ Steps(r))
               => writer' = r /\ wdb'.ca_path]_vars

\* a request adopted the files an earlier, rolled back request had left, and
\* its record of them is committed
C9_Witness ==
  \E r \in Slots :
    /\ req[r].ca_way = "adopt" /\ req[r].pc = "done" /\ req[r].status = 200
    /\ db.ca_path /\ CaFiles(store) = {1} /\ tool.ca_ok = 1

\* C10: under any interleaving of certificate requests generate-CA succeeds at
\* most once, the CA files once written are never replaced, every stored host
\* certificate is signed by that CA, and no ensure_ca call fails while CA
\* files are present (ConcSpec).
C10_OneCaPerNetwork ==
  /\ [](/\ tool.ca_ok <= 1
        /\ CaPresent(store) <=> tool.ca_ok = 1
        /\ \A h \in Hostnames :
             store.crt[h].present => CaFiles(store) = {store.crt[h].ca})
  /\ [][CaFiles(store) # {} => (store'.ca_crt = store.ca_crt /\ store'.ca_key = store.ca_key)]_vars
  /\ [][\A r \in Slots :
          (EnsureCaCall(r) /\ req'[r].pc = "done") => CaFiles(store) = {} /\ store' = store]_vars

\* two requests that met on the network without a CA have both been served:
\* one generated the CA, the other adopted it
C10_Witness ==
  \E r1, r2 \in Slots :
    /\ req[r1].ca_way = "generate" /\ req[r2].ca_way = "adopt"
    /\ req[r1].pc = "done" /\ req[r1].status = 200
    /\ req[r2].pc = "done" /\ req[r2].status = 200
    /\ \A h \in Hostnames : store.crt[h].present /\ store.crt[h].ca = store.ca_crt

\* the number of allocation rows of the network
Rows(d) == LET RECURSIVE Sum(_)
               Sum(S) == IF S = {} THEN 0
                         ELSE LET a == Min(S) IN d.alloc[a] + Sum(S \ {a})
           IN Sum(Addresses)

\* C11: when the network's table holds as many allocation rows as the CIDR
\* has host addresses (M allocations succeeded, none was released) and no
\* other call is in flight, an allocate call, with or without a suggestion,
\* picks no address, changes no row, and its scan ends with the exhaustion
\* error.
C11_Exhaustion ==
  [][\A r \in Slots :
       (/\ req[r].op = "allocate" /\ Steps(r)
        /\ req[r].pc \in {"alloc_check", "alloc_scan"}
        /\ InFlight = {r}
        /\ Rows(db) = NumHosts)
       => /\ req'[r].pc # "issue"
          /\ db' = db /\ wdb' = wdb
          /\ req[r].pc = "alloc_scan" => req'[r].pc = "done" /\ req'[r].status = 500]_vars

\* C12: a release call for an address that is allocated deletes its row, and
\* the address is not allocated once the row is deleted and once the call
\* has ended; and an allocate call that reads the
\* table while an address is free returns that address when it is the
\* suggestion, or when nothing is suggested and it is the lowest free host
\* address.
C12_ReleaseThenReallocate ==
  [][\A r \in Slots :
       /\ (/\ req[r].op = "release" /\ Steps(r)
           /\ req[r].pc = "release_select"
           /\ is_allocated(View(r), req[r].ip) # "false")
          => req'[r].pc = "release_delete"
       /\ (req[r].op = "release" /\ Steps(r) /\ req[r].pc = "release_delete")
          => is_allocated(wdb', req[r].ip) = "false"
       /\ (req[r].op = "release" /\ Ends(r) /\ writer = r)
          => req'[r].status = 200 /\ is_allocated(db', req[r].ip) = "false"
       /\ \A a \in Hosts :
            (/\ req[r].op = "allocate" /\ Steps(r)
             /\ is_allocated(View(r), a) = "false")
            => /\ (req[r].pc = "alloc_check" /\ req[r].sug = a)
                    => req'[r].pc = "issue" /\ req'[r].ip = a
               /\ (req[r].pc = "alloc_scan" /\ req[r].sug = NoIp
                     /\ a = Min(Hosts \ Used(View(r))))
                    => req'[r].pc = "issue" /\ req'[r].ip = a]_vars

\* the address the claim's reference operator gives for a suggestion and a
\* set of allocated addresses (NoIp: none)
AllocateRef(used, sug) ==
  IF sug \in Hosts /\ sug \notin used THEN sug
  ELSE IF Hosts \ used = {} THEN NoIp
  ELSE Min(Hosts \ used)

OneRule(q) ==
  /\ q.op = "config" /\ q.pc = "done"
  /\ Len(q.groups) > 0 /\ q.groups[1] \in DOMAIN q.gfs
  /\ Len(q.gfs[q.groups[1]]) = 1
  /\ q.gfs[q.groups[1]][1].allowed_group # ""
TheRule(q) == q.gfs[q.groups[1]][1]

\* the union of the listed ports and the range members of a port_range
PortSet(pr) ==
  UNION {IF part.k = "junk" THEN {} ELSE {p \in part.lo..part.hi : p \in 0..PortLimit}
         : part \in {pr.parts[i] : i \in 1..Len(pr.parts)}}

\* C14: a group rule with an explicit port specification expands to exactly
\* one rule per distinct port in the union of its listed ports and range
\* members, each carrying the rule's source group and protocol; a rule whose
\* port specification is "any" expands to exactly one rule with port any.
C14_RuleExpansion ==
  \A r \in Slots :
    OneRule(req[r]) =>
      LET rule == TheRule(req[r])
          inbound == req[r].section.inbound IN
      /\ \A i \in 1..Len(inbound) :
           /\ inbound[i].group = rule.allowed_group
           /\ inbound[i].proto = protocol_of(rule.protocol)
      /\ IF rule.port_range.any
         THEN Len(inbound) = 1 /\ inbound[1].port = AnyPort
         ELSE /\ {inbound[i].port : i \in 1..Len(inbound)} = PortSet(rule.port_range)
              /\ Len(inbound) = Cardinality(PortSet(rule.port_range))

\* a finished config request whose node has no group, or whose first group
\* has no group firewall row or a row with an empty rule list
NoRules(q) ==
  /\ q.op = "config" /\ q.pc = "done"
  /\ \/ Len(q.groups) = 0
     \/ q.groups[1] \notin DOMAIN q.gfs
     \/ q.gfs[q.groups[1]] = <<>>

OwnedTables == {"nodes", "allocated_ips", "certificates", "network_group_firewalls"}

\* C17: a delete_network call for an existing network does not fail on the
\* network's nodes, group firewall rows, allocation rows or certificate
\* rows, and when it has succeeded none of these rows remains.
C17_CascadingDelete ==
  [][\A r \in Slots :
       (req[r].op = "delete_network" /\ Ends(r) /\ req'[r].status # 404)
       => IF req'[r].status = 200
          THEN /\ ~db'.network
               /\ db'.nodes = {} /\ Used(db') = {} /\ db'.certs = {}
               /\ db'.group_firewalls = {}
          ELSE req'[r].cause \notin OwnedTables]_vars

\* the handlers that have a certificate signed
IssuanceOps == {"create", "sign", "reenroll"}

\* C16: on every issuance path (sign, create, re-issue for an existing node)
\* the address submitted to the external sign operation is the allocated host
\* address with the prefix length of the network's CIDR, never /32; no
\* issuance succeeds without that submission.
C16_CertificatePrefix ==
  [][\A r \in Slots :
       /\ (req[r].pc = "cert_sign" /\ Steps(r))
          => /\ req[r].op \in IssuanceOps
             /\ req[r].ip \in Hosts /\ View(r).alloc[req[r].ip] > 0
             /\ req'[r].ip_cidr = [base |-> req[r].ip, prefixlen |-> db.subnet_cidr]
             /\ req'[r].ip_cidr.prefixlen # HostPrefix
       /\ (req[r].op \in IssuanceOps /\ Ends(r) /\ req'[r].status = 200)
          => /\ "ip_cidr" \in DOMAIN req'[r]
             /\ req'[r].ip_cidr = [base |-> req[r].ip, prefixlen |-> db.subnet_cidr]]_vars

\* a node that was created on a /24 network has been re-issued a certificate
C16_Witness ==
  \E r \in Slots :
    /\ req[r].op = "reenroll" /\ req[r].pc = "done" /\ req[r].status = 200
    /\ db.subnet_cidr = 24
    /\ req[r].ip_cidr = [base |-> req[r].ip, prefixlen |-> 24]
    /\ \E n \in db.nodes : n.id = req[r].nid /\ n.ip_address = req[r].ip

\* the files present on the store
StoreFiles(st) ==
  {f \in {st.ca_crt, st.ca_key} \cup {st.crt[h] : h \in Hostnames}
         \cup {st.key[h] : h \in Hostnames} : f.present}

\* C18: in every reachable state every CA and host certificate/key file
\* present on the store is in encrypted form (magic prefix + token).
C18_StoreAlwaysEncrypted == \A f \in StoreFiles(store) : f.magic

\* the inverse transform yields f's content
Readable(f) == ~Raised(read_cert_store_file(f, tool.encryption_key))

\* C19: an operation that returns or uses the content of store files and
\* succeeds has obtained it through the inverse transform: it passes on no
\* stored bytes as they are, and none of the files it used lacks the magic
\* prefix or was written under another key.
C19_DecryptOnRead ==
  [][\A r \in Slots :
       (Ends(r) /\ req'[r].status = 200)
       => LET q == req'[r] IN
          /\ q.op \in IssuanceOps
             => /\ Readable(store.ca_crt) /\ Readable(store.ca_key)
                /\ "ca_pem" \in DOMAIN q => q.ca_pem \in {"pem", "", "None"}
          /\ q.op \in BundleOps
             => LET n == CHOOSE n \in db.nodes : n.id = q.nid IN
                /\ \A i \in 1..3 : q.files[i] \in {"pem", "None"}
                /\ Readable(store.ca_crt) /\ Readable(store.crt[n.hostname])
                /\ store.key[n.hostname].present => Readable(store.key[n.hostname])]_vars

\* the latest device token handed out for node n is of version v
Latest(t, n, v) == t.issued[n] # {} /\ v = Max(t.issued[n])

\* C20: the redemption of an unused, unexpired enrollment code of a node
\* succeeds with a device token of a version above every version issued for
\* the node before, and leaves the code used; a code that has been redeemed is
\* never accepted again; of the device tokens issued for a node the latest is
\* accepted and every earlier one is rejected as unauthorized.
C20_DeviceTokenVersioning ==
  [][\A r \in Slots :
       /\ (req[r].op = "enroll" /\ req[r].pc # "done" /\ Ends(r))
          => LET code == db.codes[req[r].code] IN
             IF code # NoCode /\ ~code.used /\ (\E n \in db.nodes : n.id = code.node_id)
             THEN /\ req'[r].status = 200
                  /\ db'.codes[req[r].code].used
                  /\ \A v \in tool.issued[code.node_id] : req'[r].token.ver > v
                  /\ Latest(tool', code.node_id, req'[r].token.ver)
             ELSE req'[r].status # 200
       /\ (Acting(r).op = "device_auth" /\ Ends(r))
          => LET tok == req'[r].token IN
             (tok.form = "jwt" /\ tok.ver \in tool.issued[tok.node_id])
             => req'[r].status = IF Latest(tool, tok.node_id, tok.ver) THEN 200 ELSE 401]_vars

\* the bucket of an answered request, as dispatch computes it
Bucket(c) == <<client_id(c, endpoint_id(c.path)), endpoint_id(c.path)>>
Limited(i) == endpoint_id(req[i].path) # NoPattern
\* earlier requests of the same bucket that reached the handler
LetThrough(i, K(_)) ==
  {j \in 1..(i - 1) : Limited(j) /\ K(req[j]) = K(req[i]) /\ req[j].handled}
InWindow(i, K(_)) ==
  {j \in LetThrough(i, K) :
     req[i].at - req[j].at < limits(endpoint_id(req[i].path))[2]}

HeaderKey(c) ==
  <<IF endpoint_id(c.path) = DeviceConfig THEN strip(c.authorization) ELSE c.host,
    endpoint_id(c.path)>>
\* the same, with the client IP standing in for an absent or blank header
HeaderOrHostKey(c) ==
  <<IF endpoint_id(c.path) = DeviceConfig /\ strip(c.authorization) # ""
    THEN strip(c.authorization) ELSE c.host,
    endpoint_id(c.path)>>
\* how many earlier let-through requests of the same key are how old
Ages(i, K(_)) ==
  [a \in 0..MaxTime |->
     Cardinality({j \in LetThrough(i, K) : req[i].at - req[j].at = a})]
\* every earlier request was the newest one in an earlier state, so the
\* newest request is compared with each earlier one
KeyedBy(K(_)) ==
  /\ \A i \in DOMAIN req : LET j == Len(req) IN
       Limited(i) /\ Limited(j) /\ K(req[i]) = K(req[j]) /\ Ages(i, K) = Ages(j, K)
         => req[i].status = req[j].status
  /\ \A i \in DOMAIN req : Limited(i) =>
       (req[i].handled
          <=> Cardinality(InWindow(i, K)) < limits(endpoint_id(req[i].path))[1])

\* C22 as stated: whether a request is let through depends only on the
\* earlier let-through requests with the same (identifier, pattern) key,
\* the identifier being the Authorization header on the device endpoint
\* and the client IP elsewhere; requests of one key share one budget.
C22_HeaderKeying == KeyedBy(HeaderKey)

\* C22 amended: the same with the client IP as identifier of a device
\* request whose Authorization header is absent or blank.
C22_BucketKeying == KeyedBy(HeaderOrHostKey)
C22_Witness ==
  \E i, j \in DOMAIN req :
    /\ i < j /\ req[i].at = req[j].at
    /\ endpoint_id(req[i].path) = DeviceConfig /\ req[i].status = 429
    /\ endpoint_id(req[j].path) = DeviceConfig /\ req[j].handled
    /\ \/ req[i].host = req[j].host /\ strip(req[j].authorization) # ""
       \/ req[i].host # req[j].host /\ strip(req[j].authorization) = ""

\* two create requests for one hostname that have both been answered
CreatePair(r1, r2) ==
  /\ r1 # r2
  /\ req[r1].op = "create" /\ req[r1].pc = "done"
  /\ req[r2].op = "create" /\ req[r2].pc = "done"
  /\ req[r1].name = req[r2].name

\* C23: of two concurrent create requests for one hostname at most one
\* succeeds (the other is answered with an error), and afterwards the
\* hostname has at most one node row, one allocated address and one unrevoked certificate
\* row -- under any interleaving of certificate requests (ConcSpec).
C23_CreateSerialized ==
  \A r1, r2 \in Slots :
    CreatePair(r1, r2) =>
      LET rows == {n \in db.nodes : n.hostname = req[r1].name} IN
        /\ ~(req[r1].status = 200 /\ req[r2].status = 200)
        /\ Cardinality(rows) <= 1
        /\ Cardinality({n.ip_address : n \in rows} \ {NoIp}) <= 1
        /\ Cardinality(UNION {Unrevoked(db, n.id) : n \in rows}) <= 1

\* C24: for a group rule with an explicit port specification every emitted
\* rule carries a port that is a listed port or a range member within
\* 0..65535 of the specification; parts that are out of range or malformed
\* add no rule, and a specification without a valid part adds no rule with
\* port any.
C24_InvalidPartsDropped ==
  \A r \in Slots :
    (OneRule(req[r]) /\ ~TheRule(req[r]).port_range.any) =>
      LET inbound == req[r].section.inbound IN
        \A i \in 1..Len(inbound) :
          /\ inbound[i].port # AnyPort
          /\ inbound[i].port \in PortSet(TheRule(req[r]).port_range)

\* the nodes of d that hold address a
Holders(d, a) == {n \in d.nodes : n.ip_address = a}

\* C25: in every reachable state the allocated addresses are exactly the
\* addresses held by nodes, each allocated once and held by exactly one
\* node -- for requests served one after the other (Spec).
C25_AllocationsMatchNodes ==
  \A a \in Addresses :
    /\ db.alloc[a] > 0 <=> Holders(db, a) # {}
    /\ db.alloc[a] > 0 => db.alloc[a] = 1 /\ Cardinality(Holders(db, a)) = 1

\* this step of r runs the external tool (generate-CA in ensure_ca; keygen
\* and sign at "issue") and the request ends 500 in it
ToolFailure(r) ==
  /\ req[r].op \in IssuanceOps /\ req[r].pc \in {"ensure_ca", "issue"}
  /\ Steps(r) /\ req'[r].status = 500

\* C26: when the external tool fails during create, sign or re-enroll, the
\* request ends in that step with an error (no further tool call follows in
\* it), and the committed state is the one before the request: the address
\* the request allocated, and every node or certificate row it added, are
\* gone.
C26_ToolFailureIsHard ==
  [][\A r \in Slots :
       ToolFailure(r)
         => /\ req'[r].pc = "done"
            /\ tool'.ca_ok = tool.ca_ok
            /\ db' = db /\ wdb' = db /\ writer' = 0]_vars

\* a create whose keygen or sign failed after its address was allocated
C26_Witness ==
  \E r \in Slots :
    /\ req[r].op = "create" /\ req[r].pc = "done" /\ req[r].status = 500
    /\ req[r].ip \in Hosts /\ db.alloc[req[r].ip] = 0
    /\ db.nodes = {} /\ db.certs = {}

\* the re-enroll of r ends in this step, for a node that exists
ReenrollEnds(r) == req'[r].op = "reenroll" /\ Ends(r) /\ req'[r].status # 404
\* the only ways a re-enroll may fail: generate-CA fails where no CA file
\* is in its way, keygen or sign fails (nothing is written), or allocate
\* finds no free address
ToolOrAddressFailed(r) ==
  \/ req[r].pc = "ensure_ca" /\ CaFiles(store) = {}
  \/ req[r].pc = "issue" /\ store' = store
  \/ req[r].pc = "alloc_scan"

\* C27: whatever state earlier revokes and re-enrolls, failed or not, have
\* left behind, a re-enroll of an existing node fails only if the external
\* tool fails or no address is free; otherwise it ends 200 with the node
\* active, holding one address that is allocated once, and with the host
\* certificate and key files stored.
C27_ReenrollRerunnable ==
  [][\A r \in Slots :
       ReenrollEnds(r) =>
         IF req'[r].status = 200
         THEN \E n \in db'.nodes :
                /\ n.id = req[r].nid /\ n.status = "active"
                /\ n.ip_address \in Hosts /\ db'.alloc[n.ip_address] = 1
                /\ store'.crt[n.hostname].present /\ store'.key[n.hostname].present
         ELSE ToolOrAddressFailed(r)]_vars

\* a re-enroll taken up in the state a failed re-enroll leaves behind: the
\* node row is as before (rolled back), the host files are gone
C27_Witness ==
  \E r \in Slots :
    /\ req[r].op = "reenroll" /\ req[r].pc = "revoke"
    /\ req[r].orig.status = "active" /\ req[r].orig.ip_address \in Hosts
    /\ db.alloc[req[r].orig.ip_address] = 1
    /\ ~store.crt[req[r].name].present /\ ~store.key[req[r].name].present

\* a finished topology request
Built(q) == q.op = "topology" /\ q.pc = "done"
\* the peers of q with an address that satisfy P
PeersWith(q, P(_)) ==
  {q.peer_nodes[i] : i \in {j \in 1..Len(q.peer_nodes) :
     q.peer_nodes[j].ip_address # NoIp /\ P(q.peer_nodes[j])}}
Directory(n) == (n.is_lighthouse \/ n.is_relay) /\ n.public_endpoint # NoEndpoint
Lighthouse(n) == n.is_lighthouse /\ n.public_endpoint # NoEndpoint
Relay(n) == n.is_relay
AddressSet(s) == {s[i] : i \in 1..Len(s)}

C29_KeyMatchesCertificate ==
  \A h \in Hostnames :
    /\ (store.crt[h].present /\ store.key[h].present)
         => store.crt[h].key = store.key[h].key
    /\ (store.crt[h].present /\ store.crt[h].key = ClientKey)
         => ~store.key[h].present

\* a finished config request whose section sets inbound_action to drop
Drops(q) == q.op = "config" /\ q.pc = "done" /\ q.section.inbound_action = "drop"
HasAllowAll(q) == \E i \in 1..Len(q.section.inbound) : q.section.inbound[i] = AllowAll

\* C30: a section with inbound_action drop is built only for a node whose
\* first group has rules; its inbound list is the translation of that rule
\* list, every entry scoped to a source group, and does not contain the
\* allow-all rule; the allow-all rule appears only where the node's group
\* has no entry or an empty rule list.
C30_DropWithoutAllowAll ==
  \A r \in Slots :
    LET q == req[r] IN
    /\ Drops(q) =>
         /\ ~NoRules(q)
         /\ q.section.inbound = inbound_rules_from_group_firewall(q.gfs[q.groups[1]])
         /\ q.section.inbound # <<>>
         /\ \A i \in 1..Len(q.section.inbound) :
              /\ q.section.inbound[i].group \in GroupNames
              /\ q.section.inbound[i].host = Absent
         /\ ~HasAllowAll(q)
    /\ (q.op = "config" /\ q.pc = "done" /\ HasAllowAll(q)) => NoRules(q)

\* a drop section with a rule for every port of any protocol: still scoped
\* to a group
C30_Witness ==
  \E r \in Slots :
    /\ Drops(req[r])
    /\ \E i \in 1..Len(req[r].section.inbound) :
         /\ req[r].section.inbound[i].port = AnyPort
         /\ req[r].section.inbound[i].group = "db"

====
